---- MODULE Spec2Model ----
(***************************************************************************)
(* Model of the Norman SDK's upload and completion orchestration:          *)
(*   - FlagStatusResolver.wait_for_entities  (the completion poller)       *)
(*   - InvocationManager._upload_inputs / ModelUploadManager._upload_assets *)
(*     (the upload dispatcher)                                              *)
(*   - FileTransferService.upload_from_buffer / upload_file (one transfer) *)
(* Time is counted in whole ticks of a logical clock; the clock advances   *)
(* only while the coroutine is suspended in an await.                      *)
(***************************************************************************)
EXTENDS Integers, Sequences, FiniteSets, TLC

(***************************************************************************)
(* Bounds of the model.                                                    *)
(***************************************************************************)
\* longest flag list the backend returns for one entity
MaxFlags == 2
\* longest time one status query may take
MaxQueryTime == 3
\* longest time asyncio.sleep may overshoot the requested duration
MaxOversleep == 1
\* NormanAppConfig.flag_timeout_seconds, in clock ticks
flag_timeout_seconds == 5
\* NormanAppConfig.get_flags_interval, in clock ticks
get_flags_interval == 2

\* largest number of inputs (assets) of one created record
MaxItems == 3

\* the entity identifiers a caller may pass
Entities == {"e1", "e2"}

\* StatusFlagValue
FlagValues == {"Not_Started", "Enqueued", "In_Progress", "Finished", "Error"}

VARIABLES
    \* ---- FlagStatusResolver.wait_for_entities ----
    entity_ids,            \* the entity_ids argument (as a set)
    poll_pc,               \* position of the coroutine
    now,                   \* time.time()
    wait_start_time,       \* local wait_start_time
    wait_end_time,         \* local wait_end_time
    iteration_start_time,  \* local iteration_start_time
    wait_time,             \* local wait_time of the pending asyncio.sleep
    status_flags,          \* local status_flags: the response of the current tick
                           \* (Unset while its query is in flight)
    polls,                 \* number of get_status_flags calls issued
    sleeps,                \* number of asyncio.sleep calls issued
    first_finished         \* index of the first response whose flags were all
                           \* Finished (0: none so far)

VARIABLES
    \* ---- _upload_inputs / _upload_assets and the transfers they run ----
    workflow,              \* "invoke", "upload_model" ("none": no dispatch)
    record,                \* invocation.inputs / model.assets: the titles, in order
    configs,               \* input_configs / asset_configs: title -> caller config
    disp_pc,               \* position of the dispatcher coroutine
    cursor,                \* index in record of the next item of the for loop
    awaiting,              \* item whose upload the loop is suspended on (0: none)
    disp_error,            \* the exception that left the dispatcher
    item_pc,               \* per item: position of its upload operation
    item_log,              \* per item: the calls made for it, in order
    file_open,             \* per item: the aiofiles handle is open
    socket_info,           \* per item: pairing_id of the allocated socket (0: none)
    checksum,              \* per item: result of write_and_digest
    completed_requests,    \* ChecksumRequests passed to complete_file_transfer
    next_pairing_id,       \* backend: the next pairing id it hands out
    file_size_in_bytes,    \* per item: file_size_in_bytes of its pairing request (-1: none built)
    bytes_streamed         \* per item: bytes write_and_digest sent on its socket (-1: none)

VARIABLES
    \* ---- InvocationManager.invoke / ModelUploadManager.upload_model ----
    wf_pc,                 \* position of the workflow coroutine ("idle": none runs)
    api_key,               \* AuthenticationManager._api_key
    access_token,          \* AuthenticationManager._access_token
    account_id,            \* AuthenticationManager._account_id
    id_token,              \* AuthenticationManager._id_token
    login_calls,           \* number of login_with_key requests sent
    create_calls,          \* number of create_invocations / create_models requests sent
    raw_configs,           \* the caller's inputs / assets as passed in: title -> config
    create_reply,          \* what the create call returned: "None", "empty", "records"
                           \* ("unset" before it returns)
    validated,             \* validated_invocation_config / validated_model_config:
                           \* title -> config (<< >> before validation)
    created,               \* the record the create call returned (NoRecord before)
    resolved,              \* invoke: the outputs whose value has been resolved, in order
    output_configs,        \* invoke: invocation_config.outputs, display title -> consume
                           \* mode ("None": not set)
    invocation_results,    \* invoke: the dictionary _resolve_outputs fills, display
                           \* title -> resolved value
    wf_error,              \* the exception that reached the caller ("none": none)
    wf_result,             \* what the workflow returned ("none": nothing)
    resolve_calls          \* the calls of InputSourceResolver.resolve: who called, for
                           \* which title

VARIABLES
    \* ---- callers sharing the AuthenticationManager ----
    caller_pc,             \* caller -> position in its invalidate_access_token call
    login_completed,       \* the callers whose login has written the tokens, in order

    \* ---- one call of a resolver ----
    resolver_call          \* [pc, fn, arg, result] (NoCall: none)

\* the variables of the concurrent logins and of the resolver call
callVars == << caller_pc, login_completed, resolver_call >>

pollVars == << entity_ids, poll_pc, now, wait_start_time, wait_end_time, iteration_start_time,
               wait_time, status_flags, polls, sleeps, first_finished >>

dispVars == << workflow, record, configs, disp_pc, cursor, awaiting, disp_error,
               item_pc, item_log, file_open, socket_info, checksum,
               completed_requests, next_pairing_id, file_size_in_bytes, bytes_streamed >>

\* the workflow's variables but resolve_calls
wfState == << wf_pc, api_key, account_id, id_token, callVars, access_token, login_calls,
              create_calls, raw_configs, create_reply, validated, created, resolved, output_configs, invocation_results, wf_error, wf_result >>

wfVars == << wf_pc, api_key, account_id, id_token, callVars, access_token, login_calls,
             create_calls, raw_configs, create_reply, validated, created, resolved, output_configs, invocation_results, wf_error, wf_result, resolve_calls >>

vars == << entity_ids, poll_pc, now, wait_start_time, wait_end_time, iteration_start_time,
           wait_time, status_flags, polls, sleeps, first_finished,
           workflow, record, configs, disp_pc, cursor, awaiting, disp_error,
           item_pc, item_log, file_open, socket_info, checksum,
           completed_requests, next_pairing_id, file_size_in_bytes, bytes_streamed,
           wf_pc, api_key, account_id, id_token, callVars, access_token, login_calls,
           create_calls, raw_configs, create_reply, validated, created, resolved, output_configs, invocation_results, wf_error, wf_result, resolve_calls >>

(***************************************************************************)
(* The completion poller.                                                  *)
(***************************************************************************)
\* all flag lists of at most MaxFlags flags
FlagLists == UNION { [1..n -> FlagValues] : n \in 0..MaxFlags }

\* what get_status_flags may return for a constraint on ids: None, or a
\* dict from some of the requested entities to their flag lists
NoneResponse == [kind |-> "None", flags |-> << >>]
DictResponses(ids) ==
    { [kind |-> "dict", flags |-> f] : f \in UNION { [S -> FlagLists] : S \in SUBSET ids } }
Responses(ids) == {NoneResponse} \cup DictResponses(ids)

\* the local status_flags before the first assignment
Unset == [kind |-> "unset", flags |-> << >>]

\* QueryConstraints.includes("Status_Flags", "Entity_ID", list(entity_ids)):
\* refuses an empty collection with ValueError("... empty collection ...")
QueryConstraints_includes(ids) ==
    IF ids = {} THEN [raised |-> TRUE,  values |-> {}]
                ELSE [raised |-> FALSE, values |-> ids]

\* the order in which dict.values() yields the entities' flag lists
RECURSIVE ValuesOrder(_)
ValuesOrder(S) ==
    IF S = {} THEN << >>
    ELSE LET e == CHOOSE x \in S : TRUE IN << e >> \o ValuesOrder(S \ {e})

\* flattened_flags: the concatenation of the flag lists of status_flags.values()
RECURSIVE Concat(_, _)
Concat(d, order) ==
    IF order = << >> THEN << >>
    ELSE d[Head(order)] \o Concat(d, Tail(order))

flattened_flags(d) == Concat(d, ValuesOrder(DOMAIN d))

\* ScanFlags with the Error check dropped: an Error flag only counts as unfinished
RECURSIVE ScanFlagsNoRaise(_, _, _)
ScanFlagsNoRaise(flags, i, all_flags_finished) ==
    IF i > Len(flags) THEN [raised |-> FALSE, all_flags_finished |-> all_flags_finished]
    ELSE ScanFlagsNoRaise(flags, i + 1,
                          IF flags[i] # "Finished" THEN FALSE ELSE all_flags_finished)

\* ScanFlags with the comparison against In_Progress instead of Finished
RECURSIVE ScanFlagsInProgressOnly(_, _, _)
ScanFlagsInProgressOnly(flags, i, all_flags_finished) ==
    IF i > Len(flags) THEN [raised |-> FALSE, all_flags_finished |-> all_flags_finished]
    ELSE IF flags[i] = "Error"
         THEN [raised |-> TRUE, all_flags_finished |-> all_flags_finished]
         ELSE ScanFlagsInProgressOnly(flags, i + 1,
                        IF flags[i] = "In_Progress" THEN FALSE ELSE all_flags_finished)

\* the loop over flattened_flags: "Error" when the raise is reached, otherwise
\* the final value of all_flags_finished
RECURSIVE ScanFlags(_, _, _)
ScanFlags(flags, i, all_flags_finished) ==
    IF i > Len(flags) THEN [raised |-> FALSE, all_flags_finished |-> all_flags_finished]
    ELSE IF flags[i] = "Error"
         THEN [raised |-> TRUE, all_flags_finished |-> all_flags_finished]
         ELSE ScanFlags(flags, i + 1,
                        IF flags[i] # "Finished" THEN FALSE ELSE all_flags_finished)

\* TickOutcome with the deadline tested when the response arrives: a tick
\* that ends at or after the deadline is treated as unfinished
TickOutcomeUnlessLate(resp) ==
    IF resp.kind = "None" THEN "NoFlagsFound"
    ELSE IF now' >= wait_end_time THEN "Continue"
    ELSE LET scan == ScanFlags(flattened_flags(resp.flags), 1, TRUE) IN
         IF scan.raised THEN "EntityFailed"
         ELSE IF scan.all_flags_finished THEN "Finished"
         ELSE "Continue"

\* the outcome of one tick once get_status_flags has returned resp
TickOutcome(resp) ==
    IF resp.kind = "None" THEN "NoFlagsFound"
    ELSE LET scan == ScanFlags(flattened_flags(resp.flags), 1, TRUE) IN
         IF scan.raised THEN "EntityFailed"
         ELSE IF scan.all_flags_finished THEN "Finished"
         ELSE "Continue"

\* a response in which every flag is Finished (true of a response with no flag)
AllFinished(resp) ==
    /\ resp.kind = "dict"
    /\ \A e \in DOMAIN resp.flags :
         \A i \in 1..Len(resp.flags[e]) : resp.flags[e][i] = "Finished"

PollTerminal == {"returned", "raised_empty", "raised_noflags", "raised_error", "raised_timeout"}

\* the poller's variables at the given call
PollStart(ids) ==
    /\ entity_ids = ids
    /\ poll_pc = "start"
    /\ now = 0
    /\ wait_start_time = 0
    /\ wait_end_time = 0
    /\ iteration_start_time = 0
    /\ wait_time = 0
    /\ status_flags = Unset
    /\ polls = 0
    /\ sleeps = 0
    /\ first_finished = 0

\* WaitForEntities with the constraints built without the emptiness check
WaitForEntitiesNoCheck ==
    /\ poll_pc = "start"
    /\ poll_pc' = "loop"
    /\ wait_start_time' = now
    /\ wait_end_time' = wait_start_time' + flag_timeout_seconds
    /\ UNCHANGED << entity_ids, now, iteration_start_time, wait_time,
                    status_flags, polls, sleeps, first_finished >>
    /\ UNCHANGED dispVars
    /\ UNCHANGED wfVars

\* wait_for_entities is called: builds the constraints and reads the clock
WaitForEntities ==
    /\ poll_pc = "start"
    /\ IF QueryConstraints_includes(entity_ids).raised
       THEN /\ poll_pc' = "raised_empty"
            /\ UNCHANGED << wait_start_time, wait_end_time >>
       ELSE /\ poll_pc' = "loop"
            /\ wait_start_time' = now
            /\ wait_end_time' = wait_start_time' + flag_timeout_seconds
    /\ UNCHANGED << entity_ids, now, iteration_start_time, wait_time,
                    status_flags, polls, sleeps, first_finished >>
    /\ UNCHANGED dispVars
    /\ UNCHANGED wfVars

\* BeginTick with "while True" in place of the deadline test
BeginTickNoDeadline ==
    /\ poll_pc = "loop"
    /\ iteration_start_time' = now
    /\ polls' = polls + 1
    /\ poll_pc' = "query"
    /\ status_flags' = Unset
    /\ UNCHANGED << entity_ids, now, wait_start_time, wait_end_time, wait_time, sleeps, first_finished >>
    /\ UNCHANGED dispVars
    /\ UNCHANGED wfVars

\* the while condition holds: a tick starts and awaits get_status_flags
BeginTick ==
    /\ poll_pc = "loop"
    /\ now < wait_end_time
    /\ iteration_start_time' = now
    /\ polls' = polls + 1
    /\ poll_pc' = "query"
    /\ status_flags' = Unset
    /\ UNCHANGED << entity_ids, now, wait_start_time, wait_end_time, wait_time, sleeps, first_finished >>
    /\ UNCHANGED dispVars
    /\ UNCHANGED wfVars

\* TimeOut with the loop spinning at the deadline instead of raising
TimeOutSpins ==
    /\ poll_pc = "loop"
    /\ ~(now < wait_end_time)
    /\ UNCHANGED pollVars
    /\ UNCHANGED dispVars
    /\ UNCHANGED wfVars

\* the while condition fails: TimeoutError
TimeOut ==
    /\ poll_pc = "loop"
    /\ ~(now < wait_end_time)
    /\ poll_pc' = "raised_timeout"
    /\ UNCHANGED << entity_ids, now, wait_start_time, wait_end_time, iteration_start_time,
                    wait_time, status_flags, polls, sleeps, first_finished >>
    /\ UNCHANGED dispVars
    /\ UNCHANGED wfVars

\* ShouldSleep with the test dropped: every unfinished tick sleeps
ShouldSleepAlways(wt) == TRUE

\* ShouldSleep with a zero duration passed on to asyncio.sleep
ShouldSleepWhenZero(wt) == wt >= 0

\* "if wait_time > 0": whether the tick ends in asyncio.sleep(wait_time)
ShouldSleep(wt) == wt > 0

\* get_status_flags returns resp after d ticks; the rest of the loop body
\* runs up to the return, the raise, the sleep or the next while check
ReceiveFlags(resp, d) ==
    /\ poll_pc = "query"
    /\ now' = now + d
    /\ status_flags' = resp
    /\ first_finished' = IF first_finished = 0 /\ AllFinished(resp)
                         THEN polls ELSE first_finished
    /\ LET outcome == TickOutcome(resp)
           iteration_duration == now' - iteration_start_time
           wt == get_flags_interval - iteration_duration
       IN  CASE outcome = "NoFlagsFound" ->
                  /\ poll_pc' = "raised_noflags"
                  /\ UNCHANGED << wait_time, sleeps >>
             [] outcome = "EntityFailed" ->
                  /\ poll_pc' = "raised_error"
                  /\ UNCHANGED << wait_time, sleeps >>
             [] outcome = "Finished" ->
                  /\ poll_pc' = "returned"
                  /\ UNCHANGED << wait_time, sleeps >>
             [] outcome = "Continue" ->
                  /\ wait_time' = wt
                  /\ IF ShouldSleep(wt)
                     THEN poll_pc' = "sleep" /\ sleeps' = sleeps + 1
                     ELSE poll_pc' = "loop" /\ UNCHANGED sleeps
    /\ UNCHANGED << entity_ids, wait_start_time, wait_end_time, iteration_start_time, polls >>
    /\ UNCHANGED dispVars
    /\ UNCHANGED wfVars

\* asyncio.sleep(wait_time) returns, no earlier than asked
Sleep(over) ==
    /\ poll_pc = "sleep"
    /\ now' = now + wait_time + over
    /\ poll_pc' = "loop"
    /\ UNCHANGED << entity_ids, wait_start_time, wait_end_time, iteration_start_time, wait_time,
                    status_flags, polls, sleeps, first_finished >>
    /\ UNCHANGED dispVars
    /\ UNCHANGED wfVars

PollNext ==
    \/ WaitForEntities
    \/ BeginTick
    \/ TimeOut
    \/ poll_pc = "query" /\ \E resp \in Responses(entity_ids), d \in 0..MaxQueryTime :
                                ReceiveFlags(resp, d)
    \/ poll_pc = "sleep" /\ \E over \in 0..MaxOversleep : Sleep(over)

(***************************************************************************)
(* The source classifier, over the kinds of value a caller may pass as     *)
(* data.  "File", "Stream" and "Link" stand for those literal strings.     *)
(***************************************************************************)
Sources == {"Primitive", "File", "Stream", "Link"}

DataValues == {"None", "Path_exists", "Path_missing", "AsyncStream", "BytesIO",
               "Str_url", "Str_file", "Str_plain", "Str_sep", "Bytes",
               "File", "Stream", "Link",
               "Str_url_padded", "Str_file_padded", "Str_plain_padded", "Str_sep_padded",
               "Str_sep_file", "Str_ftp", "Str_empty", "Str_blank"}

IsPath(data) == data \in {"Path_exists", "Path_missing"}
IsStr(data) == data \in {"Str_url", "Str_file", "Str_plain", "Str_sep", "File", "Stream", "Link",
                         "Str_url_padded", "Str_file_padded", "Str_plain_padded",
                         "Str_sep_padded", "Str_sep_file", "Str_ftp", "Str_empty", "Str_blank"}

\* str.strip(): the text without its leading and trailing whitespace; text of
\* whitespace only becomes the empty text
strip(data) ==
    CASE data = "Str_url_padded"   -> "Str_url"
      [] data = "Str_file_padded"  -> "Str_file"
      [] data = "Str_plain_padded" -> "Str_plain"
      [] data = "Str_sep_padded"   -> "Str_sep"
      [] data = "Str_blank"        -> "Str_empty"
      [] OTHER                     -> data

\* Path(data).exists(), for a Path or a string: the text names a file or
\* directory; Path("") is the current directory, which exists
PathExists(data) == data \in {"Path_exists", "Str_file", "Str_sep_file", "Str_empty"}

\* os.sep in data: the text contains a path separator
contains_sep(data) ==
    data \in {"Str_sep", "Str_sep_padded", "Str_sep_file", "Str_url", "Str_url_padded", "Str_ftp"}

\* InputSourceResolver._is_url: scheme http or https and a host; padded text
\* parses to no scheme
is_url(data) == data = "Str_url"
\* InputSourceResolver._is_async_stream
is_async_stream(data) == data = "AsyncStream"
\* InputSourceResolver._is_sync_stream
is_sync_stream(data) == data = "BytesIO"

\* Resolve with the path-separator rule of the helpers variant
ResolveSeparatorRule(data) ==
    IF data = "None" THEN "ValueError"
    ELSE IF IsPath(data) THEN (IF PathExists(data) THEN "File" ELSE "FileNotFoundError")
    ELSE IF is_async_stream(data) THEN "Stream"
    ELSE IF is_sync_stream(data) THEN "Stream"
    ELSE IF IsStr(data) THEN
        (LET stripped == strip(data)
         IN  IF is_url(stripped) THEN "Link"
             ELSE IF PathExists(stripped) THEN "File"
             ELSE IF contains_sep(stripped) THEN "FileNotFoundError"
             ELSE "Primitive")
    ELSE "Primitive"

\* Resolve with the checks for None and Path moved behind the text rules
ResolveTextFirst(data) ==
    IF IsStr(data) THEN
        (LET stripped == strip(data)
         IN  IF is_url(stripped) THEN "Link"
             ELSE IF PathExists(stripped) THEN "File"
             ELSE "Primitive")
    ELSE IF is_async_stream(data) THEN "Stream"
    ELSE IF is_sync_stream(data) THEN "Stream"
    ELSE IF IsPath(data) /\ PathExists(data) THEN "File"
    ELSE "Primitive"

\* Resolve with the existence check of a text dropped
ResolveNoExistenceCheck(data) ==
    IF data = "None" THEN "ValueError"
    ELSE IF IsPath(data) THEN (IF PathExists(data) THEN "File" ELSE "FileNotFoundError")
    ELSE IF is_async_stream(data) THEN "Stream"
    ELSE IF is_sync_stream(data) THEN "Stream"
    ELSE IF IsStr(data) THEN (IF is_url(strip(data)) THEN "Link" ELSE "Primitive")
    ELSE "Primitive"

\* InputSourceResolver.resolve (norman.resolvers): a source, or the name of
\* the exception raised
Resolve(data) ==
    IF data = "None" THEN "ValueError"
    ELSE IF IsPath(data) THEN (IF PathExists(data) THEN "File" ELSE "FileNotFoundError")
    ELSE IF is_async_stream(data) THEN "Stream"
    ELSE IF is_sync_stream(data) THEN "Stream"
    ELSE IF IsStr(data) THEN
        (LET stripped == strip(data)
         IN  IF is_url(stripped) THEN "Link"
             ELSE IF PathExists(stripped) THEN "File"
             ELSE "Primitive")
    ELSE "Primitive"

\* hasattr(data, "read") or hasattr(data, "__aiter__")
has_read_or_aiter(data) == data \in {"AsyncStream", "BytesIO"}

\* InputSourceResolver.resolve of norman.helpers, which no module imports:
\* text first, with the path-separator rule; None falls through to Primitive
HelpersResolve(data) ==
    IF IsStr(data) THEN
        (LET stripped_string == strip(data)
         IN  IF is_url(stripped_string) THEN "Link"
             ELSE IF PathExists(stripped_string) THEN "File"
             ELSE IF contains_sep(stripped_string) THEN "FileNotFoundError"
             ELSE "Primitive")
    ELSE IF IsPath(data) THEN (IF PathExists(data) THEN "File" ELSE "FileNotFoundError")
    ELSE IF has_read_or_aiter(data) THEN "Stream"
    ELSE "Primitive"

(***************************************************************************)
(* The upload dispatcher and the transfers.                                *)
(***************************************************************************)
Titles == 1..MaxItems

\* FileTransferService.normalize_primitive_data accepts str, bytes, BytesIO,
\* numbers, dict and list; anything else raises ValueError
Normalizable(data) == IsStr(data) \/ data \in {"Bytes", "BytesIO"}

\* the checksum SocketClient.write_and_digest returns for the bytes of data
Digest(data) == << "digest", data >>

\* upload_from_buffer: ChecksumRequest(pairing_id=socket_info.pairing_id,
\* checksum=checksum), the fields the request is built with
ChecksumRequest(pairing_id, digest) == [pairing_id |-> pairing_id, checksum |-> digest]

\* the type of the pairing request the manager builds
PairingType == IF workflow = "upload_model" THEN "SocketAssetPairingRequest"
               ELSE "SocketInputPairingRequest"

\* _handle_input_upload: source = input_config.source or resolve(data)
InputSource(cfg) == IF cfg.source # "None" THEN cfg.source ELSE Resolve(cfg.data)

\* _handle_asset_upload: source = asset.data when a source is declared
AssetSource(cfg) == IF cfg.source # "None" THEN cfg.data ELSE Resolve(cfg.data)

\* whether the handler calls InputSourceResolver.resolve for the item: the right
\* operand of "source or resolve(data)", the else branch of "source is not None"
ClassifierConsulted(cfg) == cfg.source = "None"

ItemSource(cfg) == IF workflow = "upload_model" THEN AssetSource(cfg) ELSE InputSource(cfg)

\* Handled with a Primitive handler in both managers
HandledAll == {"Primitive", "File", "Stream", "Link"}

\* the sources each manager has a handler for
Handled == IF workflow = "upload_model" THEN {"File", "Stream", "Link"}
           ELSE {"Primitive", "File", "Stream", "Link"}

\* len(data): the number of characters of a text
CharLen(data) == CASE data = "Str_plain" -> 1
                   [] data = "Str_plain_padded" -> 3
                   [] OTHER -> 4

\* len(data.encode("utf-8")): a character outside ASCII takes more than one
\* byte; Str_plain stands for a text with one such character
Utf8Len(data) == IF data \in {"Str_plain", "Str_plain_padded"} THEN CharLen(data) + 1
                 ELSE CharLen(data)

\* the bytes an in-memory value holds: a bytes value, a BytesIO
BytesLen(data) == CASE data = "Bytes" -> 5
                    [] data = "BytesIO" -> 6
                    [] OTHER -> 0

\* normalize_primitive_data: the BytesIO buffer made of the value; text is
\* encoded as UTF-8, bytes are wrapped, a BytesIO is returned unchanged
normalize_primitive_data(data) ==
    IF IsStr(data) THEN [type |-> "BytesIO", size |-> Utf8Len(data)]
    ELSE [type |-> "BytesIO", size |-> BytesLen(data)]

\* the stream object a caller passed as data
StreamOf(data) == [type |-> data, size |-> BytesLen(data)]

\* the file on disk a path names, as aiofiles.open returns it
FileOf(path) == [type |-> "file", size |-> 7]

\* FileUtils.get_buffer_size: the number of bytes of the buffer
get_buffer_size(buffer) == buffer.size

\* os.path.getsize: the size on disk of the file the path names
getsize(path) == FileOf(path).size

\* SocketClient.write_and_digest: the number of bytes it sends of the byte
\* source it is given
write_and_digest_sent(buffer) == buffer.size

\* whether the handler of the item gets as far as building its pairing
\* request: the source has a handler, the primitive can be normalized, the
\* file exists
BuildsPairingRequest(cfg) ==
    LET source == ItemSource(cfg)
    IN  /\ source \in Handled
        /\ \/ source = "Primitive" /\ Normalizable(cfg.data)
           \/ source = "File" /\ PathExists(cfg.data)
           \/ source = "Stream"

\* PairingFileSize with the primitive measured before it is normalized
PairingFileSizeOfRawData(source, data) ==
    IF source = "Primitive" THEN (IF IsStr(data) THEN CharLen(data) ELSE BytesLen(data))
    ELSE IF source = "File" THEN getsize(data)
    ELSE get_buffer_size(StreamOf(data))

\* file_size_in_bytes of the pairing request the handler builds:
\* _upload_primitive_input, _upload_file_input / _handle_file_asset,
\* _upload_stream_input / _handle_stream_asset
PairingFileSize(source, data) ==
    IF source = "Primitive" THEN get_buffer_size(normalize_primitive_data(data))
    ELSE IF source = "File" THEN getsize(data)
    ELSE get_buffer_size(StreamOf(data))

\* the bytes sent for the byte source the handler hands to upload_from_buffer:
\* byte_buffer, the file upload_file opened at path, the stream
StreamedBytes(source, data) ==
    IF source = "Primitive" THEN write_and_digest_sent(normalize_primitive_data(data))
    ELSE IF source = "File" THEN write_and_digest_sent(FileOf(data))
    ELSE write_and_digest_sent(StreamOf(data))

\* AwaitItem with the upload scheduled but not awaited
AwaitItemDetached(i) == 0

\* "await self._handle_..._upload(...)": the loop is suspended on item i
AwaitItem(i) == i

Append2(log, a, b) == Append(Append(log, a), b)

\* ItemFails with the exception swallowed: the for loop goes on
ItemFailsSwallowed(i, err, log) ==
    /\ item_pc' = [item_pc EXCEPT ![i] = "failed"]
    /\ item_log' = [item_log EXCEPT ![i] = Append(log, "raise")]
    /\ file_open' = [file_open EXCEPT ![i] = FALSE]
    /\ disp_error' = Append(disp_error, [item |-> i, error |-> err])
    /\ awaiting' = IF awaiting = i THEN 0 ELSE awaiting
    /\ UNCHANGED disp_pc

\* ItemFails with the file of a failed transfer left open
ItemFailsLeavesOpen(i, err, log) ==
    /\ item_pc' = [item_pc EXCEPT ![i] = "failed"]
    /\ item_log' = [item_log EXCEPT ![i] = Append(log, "raise")]
    /\ UNCHANGED file_open
    /\ disp_pc' = "failed"
    /\ disp_error' = Append(disp_error, [item |-> i, error |-> err])
    /\ awaiting' = IF awaiting = i THEN 0 ELSE awaiting

\* the exception err leaves the upload of item i and the dispatcher; an
\* "async with aiofiles.open" block closes its file on the way out
ItemFails(i, err, log) ==
    /\ item_pc' = [item_pc EXCEPT ![i] = "failed"]
    /\ item_log' = [item_log EXCEPT ![i] = Append(log, "raise")]
    /\ file_open' = [file_open EXCEPT ![i] = FALSE]
    /\ disp_pc' = "failed"
    /\ disp_error' = Append(disp_error, [item |-> i, error |-> err])
    /\ awaiting' = IF awaiting = i THEN 0 ELSE awaiting

\* EnterUploadFromBuffer with write_and_digest called before any socket is
\* allocated
EnterUploadFromBufferNoAlloc(i, log) ==
    /\ item_pc' = [item_pc EXCEPT ![i] = "writing"]
    /\ item_log' = [item_log EXCEPT ![i] = Append(log, "write_and_digest")]

\* upload_from_buffer is entered for item i: the isinstance dispatch and the
\* call of allocate_socket_for_asset / allocate_socket_for_input
EnterUploadFromBuffer(i, log) ==
    IF PairingType = "SocketAssetPairingRequest"
    THEN /\ item_pc' = [item_pc EXCEPT ![i] = "allocating"]
         /\ item_log' = [item_log EXCEPT ![i] = Append(log, "allocate_socket_for_asset")]
    ELSE IF PairingType = "SocketInputPairingRequest"
    THEN /\ item_pc' = [item_pc EXCEPT ![i] = "allocating"]
         /\ item_log' = [item_log EXCEPT ![i] = Append(log, "allocate_socket_for_input")]
    ELSE /\ item_pc' = [item_pc EXCEPT ![i] = "failed"]
         /\ item_log' = [item_log EXCEPT ![i] = Append(log, "raise")]

\* ConfigTitle with the caller config taken by the item's position in the
\* record
ConfigTitleByPosition(i) == i

\* invocation_input.display_title / model_asset.asset_name: the key with
\* which the caller config of item i is looked up
ConfigTitle(i) == record[i]

\* one pass of the for loop: look the config up, choose the handler by the
\* source and run it up to its first await
BeginItem ==
    /\ disp_pc = "loop"
    /\ awaiting = 0
    /\ cursor <= Len(record)
    /\ LET i == cursor
           title == ConfigTitle(i)
       IN  /\ cursor' = cursor + 1
           /\ UNCHANGED << socket_info, checksum, completed_requests, next_pairing_id, bytes_streamed >>
           /\ file_size_in_bytes' =
                  IF title \in DOMAIN configs /\ BuildsPairingRequest(configs[title])
                  THEN [file_size_in_bytes EXCEPT
                            ![i] = PairingFileSize(ItemSource(configs[title]), configs[title].data)]
                  ELSE file_size_in_bytes
           /\ IF title \notin DOMAIN configs
              THEN \* input_configs[...] raises KeyError
                   /\ disp_pc' = "failed"
                   /\ disp_error' = Append(disp_error, [item |-> i, error |-> "KeyError"])
                   /\ UNCHANGED << awaiting, item_pc, item_log, file_open >>
              ELSE LET data == configs[title].data
                       source == ItemSource(configs[title])
                   IN  IF source \notin Handled
                       THEN \* resolve raised, or the final else branch
                            /\ disp_pc' = "failed"
                            /\ disp_error' = Append(disp_error,
                                   [item |-> i,
                                    error |-> IF source = "FileNotFoundError"
                                              THEN "FileNotFoundError" ELSE "ValueError"])
                            /\ UNCHANGED << awaiting, item_pc, item_log, file_open >>
                       ELSE IF source = "Primitive"
                       THEN IF Normalizable(data)
                            THEN /\ EnterUploadFromBuffer(i, << "normalize_primitive_data", "get_buffer_size" >>)
                                 /\ awaiting' = AwaitItem(i)
                                 /\ UNCHANGED << disp_pc, disp_error, file_open >>
                            ELSE ItemFails(i, "ValueError", << "normalize_primitive_data" >>)
                       ELSE IF source = "File"
                       THEN IF PathExists(data)
                            THEN /\ item_pc' = [item_pc EXCEPT ![i] = "opening"]
                                 /\ item_log' = [item_log EXCEPT ![i] = << "getsize", "open" >>]
                                 /\ awaiting' = AwaitItem(i)
                                 /\ UNCHANGED << disp_pc, disp_error, file_open >>
                            ELSE ItemFails(i, "FileNotFoundError", << "getsize" >>)
                       ELSE IF source = "Stream"
                       THEN /\ EnterUploadFromBuffer(i, << "get_buffer_size" >>)
                            /\ awaiting' = AwaitItem(i)
                            /\ UNCHANGED << disp_pc, disp_error, file_open >>
                       ELSE \* Link
                            /\ item_pc' = [item_pc EXCEPT ![i] = "submitting"]
                            /\ item_log' = [item_log EXCEPT ![i] = << "submit_links" >>]
                            /\ awaiting' = AwaitItem(i)
                            /\ UNCHANGED << disp_pc, disp_error, file_open >>
    /\ resolve_calls' = IF record[cursor] \in DOMAIN configs
                            /\ ClassifierConsulted(configs[record[cursor]])
                         THEN Append(resolve_calls, [by |-> "dispatcher", title |-> record[cursor]])
                         ELSE resolve_calls
    /\ UNCHANGED << workflow, record, configs >>
    /\ UNCHANGED pollVars
    /\ UNCHANGED wfState

\* aiofiles.open returns (or raises) for item i; on success upload_file
\* enters upload_from_buffer with the open file
OpenReturns(i, ok) ==
    /\ item_pc[i] = "opening"
    /\ IF ok
       THEN /\ file_open' = [file_open EXCEPT ![i] = TRUE]
            /\ EnterUploadFromBuffer(i, Append(item_log[i], "opened"))
            /\ UNCHANGED << disp_pc, disp_error, awaiting >>
       ELSE ItemFails(i, "OSError", item_log[i])
    /\ UNCHANGED << workflow, record, configs, cursor, socket_info, checksum,
                    completed_requests, next_pairing_id, file_size_in_bytes, bytes_streamed >>
    /\ UNCHANGED pollVars
    /\ UNCHANGED wfVars

\* allocate_socket_for_* returns socket_info (or raises) for item i; on
\* success write_and_digest is called on that socket
AllocateReturns(i, ok) ==
    /\ item_pc[i] = "allocating"
    /\ IF ok
       THEN /\ socket_info' = [socket_info EXCEPT ![i] = next_pairing_id]
            /\ next_pairing_id' = next_pairing_id + 1
            /\ item_pc' = [item_pc EXCEPT ![i] = "writing"]
            /\ item_log' = [item_log EXCEPT ![i] = Append2(item_log[i], "allocated", "write_and_digest")]
            /\ UNCHANGED << disp_pc, disp_error, awaiting, file_open >>
       ELSE /\ ItemFails(i, "AllocateError", item_log[i])
            /\ UNCHANGED << socket_info, next_pairing_id >>
    /\ UNCHANGED << workflow, record, configs, cursor, checksum, completed_requests,
                    file_size_in_bytes, bytes_streamed >>
    /\ UNCHANGED pollVars
    /\ UNCHANGED wfVars

\* WriteReturns with the finalize sent even when the write failed
WriteReturnsFinalizeOnFailure(i, ok) ==
    /\ item_pc[i] = "writing"
    /\ IF ok
       THEN /\ checksum' = [checksum EXCEPT ![i] = Digest(configs[record[i]].data)]
            /\ bytes_streamed' = [bytes_streamed EXCEPT
                   ![i] = StreamedBytes(ItemSource(configs[record[i]]), configs[record[i]].data)]
            /\ completed_requests' = Append(completed_requests,
                   [item |-> i, request |-> ChecksumRequest(socket_info[i], checksum'[i])])
            /\ item_pc' = [item_pc EXCEPT ![i] = "finalizing"]
            /\ item_log' = [item_log EXCEPT ![i] = Append2(item_log[i], "written", "complete_file_transfer")]
            /\ UNCHANGED << disp_pc, disp_error, awaiting, file_open >>
       ELSE /\ ItemFails(i, "WriteError", item_log[i])
            /\ completed_requests' = Append(completed_requests,
                   [item |-> i, request |-> ChecksumRequest(socket_info[i], << >>)])
            /\ UNCHANGED << checksum, bytes_streamed >>
    /\ UNCHANGED << workflow, record, configs, cursor, socket_info, next_pairing_id,
                    file_size_in_bytes >>
    /\ UNCHANGED pollVars
    /\ UNCHANGED wfVars

\* write_and_digest returns the checksum (or raises) for item i; on success
\* the ChecksumRequest is built and complete_file_transfer is called
WriteReturns(i, ok) ==
    /\ item_pc[i] = "writing"
    /\ IF ok
       THEN /\ checksum' = [checksum EXCEPT ![i] = Digest(configs[record[i]].data)]
            /\ bytes_streamed' = [bytes_streamed EXCEPT
                   ![i] = StreamedBytes(ItemSource(configs[record[i]]), configs[record[i]].data)]
            /\ completed_requests' = Append(completed_requests,
                   [item |-> i, request |-> ChecksumRequest(socket_info[i], checksum'[i])])
            /\ item_pc' = [item_pc EXCEPT ![i] = "finalizing"]
            /\ item_log' = [item_log EXCEPT ![i] = Append2(item_log[i], "written", "complete_file_transfer")]
            /\ UNCHANGED << disp_pc, disp_error, awaiting, file_open >>
       ELSE /\ ItemFails(i, "WriteError", item_log[i])
            /\ UNCHANGED << checksum, completed_requests, bytes_streamed >>
    /\ UNCHANGED << workflow, record, configs, cursor, socket_info, next_pairing_id,
                    file_size_in_bytes >>
    /\ UNCHANGED pollVars
    /\ UNCHANGED wfVars

\* complete_file_transfer returns (or raises) for item i: upload_from_buffer
\* returns, upload_file closes its file, and the for loop resumes
CompleteReturns(i, ok) ==
    /\ item_pc[i] = "finalizing"
    /\ IF ok
       THEN /\ item_pc' = [item_pc EXCEPT ![i] = "done"]
            /\ item_log' = [item_log EXCEPT ![i] = Append(item_log[i], "completed")]
            /\ file_open' = [file_open EXCEPT ![i] = FALSE]
            /\ awaiting' = IF awaiting = i THEN 0 ELSE awaiting
            /\ UNCHANGED << disp_pc, disp_error >>
       ELSE ItemFails(i, "CompleteError", item_log[i])
    /\ UNCHANGED << workflow, record, configs, cursor, socket_info, checksum,
                    completed_requests, next_pairing_id, file_size_in_bytes, bytes_streamed >>
    /\ UNCHANGED pollVars
    /\ UNCHANGED wfVars

\* submit_input_links / submit_asset_links returns (or raises) for item i
SubmitReturns(i, ok) ==
    /\ item_pc[i] = "submitting"
    /\ IF ok
       THEN /\ item_pc' = [item_pc EXCEPT ![i] = "done"]
            /\ item_log' = [item_log EXCEPT ![i] = Append(item_log[i], "submitted")]
            /\ awaiting' = IF awaiting = i THEN 0 ELSE awaiting
            /\ UNCHANGED << disp_pc, disp_error, file_open >>
       ELSE ItemFails(i, "SubmitError", item_log[i])
    /\ UNCHANGED << workflow, record, configs, cursor, socket_info, checksum,
                    completed_requests, next_pairing_id, file_size_in_bytes, bytes_streamed >>
    /\ UNCHANGED pollVars
    /\ UNCHANGED wfVars

\* the for loop is exhausted: _upload_inputs / _upload_assets returns
DispatchReturns ==
    /\ disp_pc = "loop"
    /\ awaiting = 0
    /\ cursor > Len(record)
    /\ disp_pc' = "done"
    /\ UNCHANGED << workflow, record, configs, cursor, awaiting, disp_error,
                    item_pc, item_log, file_open, socket_info, checksum,
                    completed_requests, next_pairing_id, file_size_in_bytes, bytes_streamed >>
    /\ UNCHANGED pollVars
    /\ UNCHANGED wfVars

\* the dispatcher's variables when _upload_inputs / _upload_assets is entered
DispatchStart(wf, rec, cfgs) ==
    /\ workflow = wf
    /\ record = rec
    /\ configs = cfgs
    /\ disp_pc = "loop"
    /\ cursor = 1
    /\ awaiting = 0
    /\ disp_error = << >>
    /\ item_pc = [i \in 1..Len(rec) |-> "pending"]
    /\ item_log = [i \in 1..Len(rec) |-> << >>]
    /\ file_open = [i \in 1..Len(rec) |-> FALSE]
    /\ socket_info = [i \in 1..Len(rec) |-> 0]
    /\ checksum = [i \in 1..Len(rec) |-> << >>]
    /\ completed_requests = << >>
    /\ next_pairing_id = 1
    /\ file_size_in_bytes = [i \in 1..Len(rec) |-> -1]
    /\ bytes_streamed = [i \in 1..Len(rec) |-> -1]

\* no dispatch is running
DispatchIdle ==
    /\ workflow = "none"
    /\ record = << >>
    /\ configs = << >>
    /\ disp_pc = "idle"
    /\ cursor = 1
    /\ awaiting = 0
    /\ disp_error = << >>
    /\ item_pc = << >>
    /\ item_log = << >>
    /\ file_open = << >>
    /\ socket_info = << >>
    /\ checksum = << >>
    /\ completed_requests = << >>
    /\ next_pairing_id = 1
    /\ file_size_in_bytes = << >>
    /\ bytes_streamed = << >>

\* no poll is running
PollIdle ==
    /\ entity_ids = {}
    /\ poll_pc = "idle"
    /\ now = 0
    /\ wait_start_time = 0
    /\ wait_end_time = 0
    /\ iteration_start_time = 0
    /\ wait_time = 0
    /\ status_flags = Unset
    /\ polls = 0
    /\ sleeps = 0
    /\ first_finished = 0

\* the record variable before the create call has returned
NoRecord == [id |-> [of |-> "none", n |-> 0], inputs |-> << >>, outputs |-> << >>]

\* no resolver is called and nobody but the workflow uses the
\* AuthenticationManager
NoCall == [pc |-> "idle", fn |-> "none", arg |-> "none", result |-> "none"]
CallsIdle ==
    /\ caller_pc = << >>
    /\ login_completed = << >>
    /\ resolver_call = NoCall

\* no workflow is running
NoWorkflow ==
    /\ wf_pc = "idle"
    /\ login_calls = 0
    /\ create_calls = 0
    /\ raw_configs = << >>
    /\ create_reply = "unset"
    /\ validated = << >>
    /\ created = NoRecord
    /\ resolved = << >>
    /\ output_configs = << >>
    /\ invocation_results = << >>
    /\ wf_error = "none"
    /\ wf_result = "none"
    /\ resolve_calls = << >>

\* AuthenticationManager.__init__: no key, no account, no tokens
ManagerFresh ==
    /\ api_key = "None"
    /\ access_token = "None"
    /\ account_id = "None"
    /\ id_token = "None"

\* no workflow has been called on a fresh AuthenticationManager
WorkflowIdle == NoWorkflow /\ ManagerFresh

\* the caller configs of the dispatch runs explored: invoke inputs come out of
\* InvocationConfigFactory.create with their source set; assets are given
\* without a source, or with the source File
InvokeConfigs == { [source |-> "Primitive", data |-> "Str_plain"],
                   [source |-> "File",      data |-> "Path_exists"],
                   [source |-> "Stream",    data |-> "BytesIO"],
                   [source |-> "Link",      data |-> "Str_url"] }
AssetConfigs == { [source |-> "None", data |-> "Path_exists"],
                  [source |-> "None", data |-> "BytesIO"],
                  [source |-> "None", data |-> "Str_url"],
                  [source |-> "None", data |-> "Str_plain"],
                  [source |-> "File", data |-> "Path_exists"],
                  [source |-> "File", data |-> "Link"] }

\* one call of wait_for_entities, on any set of entity ids
PollInit == DispatchIdle /\ WorkflowIdle /\ CallsIdle /\ \E ids \in SUBSET Entities : PollStart(ids)

\* one call of wait_for_entities, on no entity or on one
SinglePollInit ==
    DispatchIdle /\ WorkflowIdle /\ CallsIdle /\ \E ids \in {{}, {"e1"}} : PollStart(ids)

\* invocation.inputs / model.assets as the backend may return them: up to
\* MaxItems items of different titles, in any order
CreatedRecords ==
    UNION { { r \in [1..n -> Titles] : \A j, k \in 1..n : j # k => r[j] # r[k] } :
            n \in 0..MaxItems }

\* one call of _upload_inputs / _upload_assets, on a record of up to MaxItems
\* items and caller configs for any set of titles
DispatchInit ==
    /\ PollIdle
    /\ WorkflowIdle
    /\ CallsIdle
    /\ \E wf \in {"invoke", "upload_model"}, rec \in CreatedRecords, D \in SUBSET Titles :
          \E cfgs \in [D -> IF wf = "invoke" THEN InvokeConfigs ELSE AssetConfigs] :
              DispatchStart(wf, rec, cfgs)

DispatchNext ==
    \/ BeginItem
    \/ \E i \in DOMAIN item_pc : item_pc[i] = "opening" /\ \E ok \in BOOLEAN : OpenReturns(i, ok)
    \/ \E i \in DOMAIN item_pc : item_pc[i] = "allocating" /\ \E ok \in BOOLEAN : AllocateReturns(i, ok)
    \/ \E i \in DOMAIN item_pc : item_pc[i] = "writing" /\ \E ok \in BOOLEAN : WriteReturns(i, ok)
    \/ \E i \in DOMAIN item_pc : item_pc[i] = "finalizing" /\ \E ok \in BOOLEAN : CompleteReturns(i, ok)
    \/ \E i \in DOMAIN item_pc : item_pc[i] = "submitting" /\ \E ok \in BOOLEAN : SubmitReturns(i, ok)
    \/ DispatchReturns

(***************************************************************************)
(* The workflows: InvocationManager.invoke and                             *)
(* ModelUploadManager.upload_model.                                        *)
(***************************************************************************)
\* the identifiers the backend assigns to the created record and its parts
RecordId == [of |-> "record", n |-> 0]
InputId(title) == [of |-> "input", n |-> title]
OutputId(title) == [of |-> "output", n |-> title]

\* the id of the created model's version (model.version.id), which is not
\* the model's own id
VersionId == [of |-> "version", n |-> 0]

\* the elements of a sequence
Range(seq) == { seq[k] : k \in DOMAIN seq }

\* AuthenticationManager.access_token_expired(): no token, or a token whose
\* exp lies in the past
access_token_expired(token) == token \in {"None", "expired"}

\* the condition of "if self.access_token_expired:" in invalidate_access_token:
\* the bound method itself (it is not called), and a method object is true
access_token_expired_attribute(token) == TRUE

\* InvocationConfigFactory.create, the loop over the inputs (in title order):
\* an input without a source gets InputSourceResolver.resolve(data); the first
\* exception of resolve leaves the factory
RECURSIVE FactoryScan(_, _, _)
FactoryScan(raw, k, acc) ==
    IF k > MaxItems THEN acc
    ELSE IF k \notin DOMAIN raw \/ raw[k].source # "None" THEN FactoryScan(raw, k + 1, acc)
    ELSE LET r == Resolve(raw[k].data)
             calls == Append(acc.calls, [by |-> "factory", title |-> k])
         IN  IF r \notin Sources
             THEN [configs |-> acc.configs, calls |-> calls, raised |-> r]
             ELSE FactoryScan(raw, k + 1,
                      [configs |-> [acc.configs EXCEPT ![k] = [source |-> r, data |-> raw[k].data]],
                       calls |-> calls, raised |-> "none"])

\* InvocationConfigFactory_create with the loop over the inputs dropped
InvocationConfigFactory_createNoResolve(raw) ==
    [configs |-> raw, calls |-> << >>, raised |-> "none"]

\* InvocationConfigFactory.create
InvocationConfigFactory_create(raw) ==
    FactoryScan(raw, 1, [configs |-> raw, calls |-> << >>, raised |-> "none"])

\* upload_model validates the config and builds the model; no source is
\* assigned to an asset
ModelConfig_model_validate(raw) ==
    [configs |-> raw, calls |-> << >>, raised |-> "none"]

\* "if not invocations" / "if not models": None or an empty list
CreationFailed(reply) == reply.kind = "None" \/ reply.records = << >>

\* InvocationEntityIds without the outputs
InvocationEntityIdsNoOutputs(invocation) ==
    {invocation.id} \cup { InputId(t) : t \in Range(invocation.inputs) }

\* InvocationManager._wait_for_flags: the ids of the invocation, of its inputs
\* and of its outputs
InvocationEntityIds(invocation) ==
    {invocation.id} \cup { InputId(t) : t \in Range(invocation.inputs) }
                    \cup { OutputId(t) : t \in Range(invocation.outputs) }

\* ModelUploadManager._wait_for_flags: the ids of the model and of its assets
ModelEntityIds(model) ==
    {model.id} \cup { InputId(t) : t \in Range(model.assets) }

\* the steps after invalidate_access_token has returned, up to the create
\* call: the config is validated (invoke: InvocationConfigFactory.create) and
\* create_invocations_by_model_names / create_models is awaited
IssueCreate ==
    LET made == IF workflow = "invoke" THEN InvocationConfigFactory_create(raw_configs)
                ELSE ModelConfig_model_validate(raw_configs)
    IN  /\ resolve_calls' = resolve_calls \o made.calls
        /\ IF made.raised # "none"
           THEN /\ wf_pc' = "failed"
                /\ wf_error' = made.raised
                /\ UNCHANGED << validated, create_calls >>
           ELSE /\ wf_pc' = "create"
                /\ validated' = made.configs
                /\ create_calls' = create_calls + 1
                /\ UNCHANGED wf_error

\* InvalidateAccessToken with the create call issued without the refresh
InvalidateAccessTokenSkipped ==
    /\ wf_pc = "auth"
    /\ IssueCreate
    /\ UNCHANGED << api_key, account_id, id_token, callVars, access_token, login_calls, raw_configs, create_reply, created, resolved, output_configs, invocation_results, wf_result >>
    /\ UNCHANGED pollVars
    /\ UNCHANGED dispVars

\* the workflow starts: invalidate_access_token, up to the login request of
\* _login_with_api_key (or its ValueError for a missing key)
InvalidateAccessToken ==
    /\ wf_pc = "auth"
    /\ IF access_token_expired_attribute(access_token)
       THEN IF api_key \in {"None", ""}
            THEN /\ wf_pc' = "failed"
                 /\ wf_error' = "ValueError"
                 /\ UNCHANGED << login_calls, validated, create_calls, resolve_calls >>
            ELSE /\ wf_pc' = "login"
                 /\ login_calls' = login_calls + 1
                 /\ UNCHANGED << wf_error, validated, create_calls, resolve_calls >>
       ELSE /\ IssueCreate
            /\ UNCHANGED login_calls
    /\ UNCHANGED << api_key, account_id, id_token, callVars, access_token, raw_configs, create_reply, created, resolved, output_configs, invocation_results, wf_result >>
    /\ UNCHANGED pollVars
    /\ UNCHANGED dispVars

\* the response of login_with_key carrying the access token named token
LoginResponse(token) ==
    [account |-> [id |-> "account"], access_token |-> token, id_token |-> "id_of_" \o token]

\* login_with_key returns the tokens (or raises); on success they are stored
\* and the workflow goes on to the create call
LoginReturns(ok) ==
    /\ wf_pc = "login"
    /\ IF ok
       THEN LET login_response == LoginResponse("valid")
            IN  /\ account_id' = login_response.account.id
                /\ access_token' = login_response.access_token
                /\ id_token' = login_response.id_token
                /\ IssueCreate
       ELSE /\ wf_pc' = "failed"
            /\ wf_error' = "LoginError"
            /\ UNCHANGED << access_token, account_id, id_token, validated, create_calls,
                            resolve_calls >>
    /\ UNCHANGED << api_key, callVars, login_calls, raw_configs, create_reply, created, resolved, output_configs, invocation_results, wf_result >>
    /\ UNCHANGED pollVars
    /\ UNCHANGED dispVars

\* CreateFails with the create call sent again
CreateFailsRetry ==
    /\ wf_pc' = "create"
    /\ create_calls' = create_calls + 1
    /\ UNCHANGED << wf_error, created >>
    /\ UNCHANGED dispVars

\* the create call returned nothing: RuntimeError("... creation failed")
CreateFails ==
    /\ wf_pc' = "failed"
    /\ wf_error' = "RuntimeError"
    /\ UNCHANGED << create_calls, created >>
    /\ UNCHANGED dispVars

\* _upload_inputs / _upload_assets is entered with the created record
DispatchEnter(rec, cfgs) ==
    /\ record' = rec
    /\ configs' = cfgs
    /\ disp_pc' = "loop"
    /\ cursor' = 1
    /\ awaiting' = 0
    /\ disp_error' = << >>
    /\ item_pc' = [i \in 1..Len(rec) |-> "pending"]
    /\ item_log' = [i \in 1..Len(rec) |-> << >>]
    /\ file_open' = [i \in 1..Len(rec) |-> FALSE]
    /\ socket_info' = [i \in 1..Len(rec) |-> 0]
    /\ checksum' = [i \in 1..Len(rec) |-> << >>]
    /\ completed_requests' = << >>
    /\ next_pairing_id' = 1
    /\ file_size_in_bytes' = [i \in 1..Len(rec) |-> -1]
    /\ bytes_streamed' = [i \in 1..Len(rec) |-> -1]
    /\ UNCHANGED workflow

\* the create call returns reply: the creation-failed error, or the first
\* record is kept and its uploads begin
CreateReturns(reply) ==
    /\ wf_pc = "create"
    /\ create_reply' = IF reply.kind = "None" THEN "None"
                       ELSE IF reply.records = << >> THEN "empty" ELSE "records"
    /\ IF CreationFailed(reply)
       THEN CreateFails
       ELSE /\ created' = reply.records[1]
            /\ wf_pc' = "upload"
            /\ DispatchEnter(reply.records[1].inputs, validated)
            /\ UNCHANGED << wf_error, create_calls >>
    /\ UNCHANGED << api_key, account_id, id_token, callVars, access_token, login_calls, raw_configs, validated, resolved, output_configs, invocation_results,
                    wf_result, resolve_calls >>
    /\ UNCHANGED pollVars

\* wait_for_entities is called on ids
PollEnter(ids) ==
    /\ entity_ids' = ids
    /\ poll_pc' = "start"
    /\ wait_start_time' = 0
    /\ wait_end_time' = 0
    /\ iteration_start_time' = 0
    /\ wait_time' = 0
    /\ status_flags' = Unset
    /\ polls' = 0
    /\ sleeps' = 0
    /\ first_finished' = 0
    /\ UNCHANGED now

\* the entity ids _wait_for_flags collects from the created record
EntityIdsOf(rec) ==
    IF workflow = "invoke" THEN InvocationEntityIds(rec)
    ELSE ModelEntityIds([id |-> rec.id, assets |-> rec.inputs])

\* UploadsReturn with the poll started while the uploads are still running
UploadsReturnEarly ==
    /\ wf_pc = "upload"
    /\ disp_pc \in {"loop", "done"}
    /\ wf_pc' = "poll"
    /\ PollEnter(EntityIdsOf(created))
    /\ UNCHANGED << api_key, account_id, id_token, callVars, access_token, login_calls, create_calls, raw_configs, create_reply, validated,
                    created, resolved, output_configs, invocation_results, wf_error, wf_result, resolve_calls >>
    /\ UNCHANGED dispVars

\* UploadsReturn where _wait_for_flags logs in again before the poll
UploadsReturnRefreshing ==
    /\ wf_pc = "upload"
    /\ disp_pc = "done"
    /\ wf_pc' = "poll"
    /\ PollEnter(EntityIdsOf(created))
    /\ access_token' = LoginResponse("refreshed").access_token
    /\ id_token' = LoginResponse("refreshed").id_token
    /\ UNCHANGED << api_key, account_id, callVars, login_calls, create_calls, raw_configs,
                    create_reply, validated, created, resolved, output_configs,
                    invocation_results, wf_error, wf_result, resolve_calls >>
    /\ UNCHANGED dispVars

\* _upload_inputs / _upload_assets has returned: _wait_for_flags builds the
\* entity ids and calls wait_for_entities
UploadsReturn ==
    /\ wf_pc = "upload"
    /\ disp_pc = "done"
    /\ wf_pc' = "poll"
    /\ PollEnter(EntityIdsOf(created))
    /\ UNCHANGED << api_key, account_id, id_token, callVars, access_token, login_calls, create_calls, raw_configs, create_reply, validated,
                    created, resolved, output_configs, invocation_results, wf_error, wf_result, resolve_calls >>
    /\ UNCHANGED dispVars

\* UploadsFail with the exception caught: the workflow goes on to the poll
UploadsFailDowngraded ==
    /\ wf_pc = "upload"
    /\ disp_pc = "failed"
    /\ wf_pc' = "poll"
    /\ PollEnter(EntityIdsOf(created))
    /\ UNCHANGED << api_key, account_id, id_token, callVars, access_token, login_calls, create_calls, raw_configs, create_reply, validated,
                    created, resolved, output_configs, invocation_results, wf_error, wf_result, resolve_calls >>
    /\ UNCHANGED dispVars

\* the exception of an upload leaves _upload_inputs / _upload_assets, the
\* "async with self._http_client" block and the workflow
UploadsFail ==
    /\ wf_pc = "upload"
    /\ disp_pc = "failed"
    /\ wf_pc' = "failed"
    /\ wf_error' = disp_error[1].error
    /\ UNCHANGED << api_key, account_id, id_token, callVars, access_token, login_calls, create_calls, raw_configs, create_reply, validated,
                    created, resolved, output_configs, invocation_results, wf_result, resolve_calls >>
    /\ UNCHANGED pollVars
    /\ UNCHANGED dispVars

\* wait_for_entities has returned: upload_model returns the model; invoke
\* builds the response handlers and awaits the first output's value
PollReturns ==
    /\ wf_pc = "poll"
    /\ poll_pc = "returned"
    /\ IF workflow = "upload_model"
       THEN wf_pc' = "returned" /\ wf_result' = "model"
       ELSE IF created.outputs = << >>
       THEN wf_pc' = "returned" /\ wf_result' = "outputs"
       ELSE wf_pc' = "resolve" /\ UNCHANGED wf_result
    /\ UNCHANGED << api_key, account_id, id_token, callVars, access_token, login_calls, create_calls, raw_configs, create_reply, validated,
                    created, resolved, output_configs, invocation_results, wf_error, resolve_calls >>
    /\ UNCHANGED pollVars
    /\ UNCHANGED dispVars

\* the exception wait_for_entities raised
PollError ==
    IF poll_pc = "raised_timeout" THEN "TimeoutError" ELSE "ValueError"

\* the exception of wait_for_entities leaves the workflow
PollFails ==
    /\ wf_pc = "poll"
    /\ poll_pc \in {"raised_empty", "raised_noflags", "raised_error", "raised_timeout"}
    /\ wf_pc' = "failed"
    /\ wf_error' = PollError
    /\ UNCHANGED << api_key, account_id, id_token, callVars, access_token, login_calls, create_calls, raw_configs, create_reply, validated,
                    created, resolved, output_configs, invocation_results, wf_result, resolve_calls >>
    /\ UNCHANGED pollVars
    /\ UNCHANGED dispVars

\* the values of ConsumeMode, and the methods a ResponseHandler has
ConsumeModes == {"bytes", "stream"}
HandlerMethods == {"bytes", "stream"}

\* the chunks the result stream of the output titled t yields
ResultStream(t) == << << t >>, << t, t >> >>

\* ResponseHandler.bytes: the stream is drained, chunk by chunk, into one
\* byte array
ResponseHandler_bytes(stream) ==
    [kind |-> "bytes", content |-> Concat(stream, [k \in 1..Len(stream) |-> k])]

\* ResponseHandler.stream: the stream itself, nothing read from it
ResponseHandler_stream(stream) == [kind |-> "stream", pending |-> stream]

\* ConsumeMethod with the consume mode ignored
ConsumeMethodAlwaysBytes(cfgs, t) == "bytes"

\* _resolve_outputs, the choice of the handler's method for the output titled
\* t: bytes when the output has no config or no consume mode, else the
\* method named by the consume mode (ValueError when the handler has none)
ConsumeMethod(cfgs, t) ==
    IF t \in DOMAIN cfgs
    THEN IF cfgs[t] = "None" THEN "bytes"
         ELSE IF cfgs[t] \notin HandlerMethods THEN "ValueError"
         ELSE cfgs[t]
    ELSE "bytes"

\* _resolve_outputs: the awaited value of the next output arrives (or its
\* retrieval raises) and is stored under the output's display title; after
\* the last one invoke returns the results
OutputResolves(ok) ==
    /\ wf_pc = "resolve"
    /\ LET t == created.outputs[Len(resolved) + 1]
           method == ConsumeMethod(output_configs, t)
           value == IF method = "bytes" THEN ResponseHandler_bytes(ResultStream(t))
                    ELSE ResponseHandler_stream(ResultStream(t))
       IN  IF method = "ValueError"
           THEN /\ wf_pc' = "failed"
                /\ wf_error' = "ValueError"
                /\ UNCHANGED << resolved, invocation_results, wf_result >>
           ELSE IF ok
           THEN /\ resolved' = Append(resolved, t)
                /\ invocation_results' =
                       [d \in DOMAIN invocation_results \cup {t} |->
                           IF d = t THEN value ELSE invocation_results[d]]
                /\ IF Len(resolved') = Len(created.outputs)
                   THEN wf_pc' = "returned" /\ wf_result' = "outputs"
                   ELSE wf_pc' = "resolve" /\ UNCHANGED wf_result
                /\ UNCHANGED wf_error
           ELSE /\ wf_pc' = "failed"
                /\ wf_error' = "RetrievalError"
                /\ UNCHANGED << resolved, invocation_results, wf_result >>
    /\ UNCHANGED output_configs
    /\ UNCHANGED << api_key, account_id, id_token, callVars, access_token, login_calls, create_calls, raw_configs, create_reply, validated,
                    created, resolve_calls >>
    /\ UNCHANGED pollVars
    /\ UNCHANGED dispVars

\* what an earlier login, if any, left in the AuthenticationManager beside the
\* access token
PriorLogin(token) ==
    IF token = "None" THEN [account_id |-> "None", id_token |-> "None"]
    ELSE [account_id |-> "account", id_token |-> "id_of_" \o token]

\* the workflow's variables when invoke / upload_model is called
WorkflowStart(key, token, raw, outs) ==
    /\ wf_pc = "auth"
    /\ api_key = key
    /\ access_token = token
    /\ account_id = PriorLogin(token).account_id
    /\ id_token = PriorLogin(token).id_token
    /\ login_calls = 0
    /\ create_calls = 0
    /\ raw_configs = raw
    /\ create_reply = "unset"
    /\ validated = << >>
    /\ created = NoRecord
    /\ resolved = << >>
    /\ output_configs = outs
    /\ invocation_results = << >>
    /\ wf_error = "none"
    /\ wf_result = "none"
    /\ resolve_calls = << >>

\* the dispatcher's variables of a workflow wf before its uploads begin
DispatchNotEntered(wf) ==
    /\ workflow = wf
    /\ record = << >>
    /\ configs = << >>
    /\ disp_pc = "idle"
    /\ cursor = 1
    /\ awaiting = 0
    /\ disp_error = << >>
    /\ item_pc = << >>
    /\ item_log = << >>
    /\ file_open = << >>
    /\ socket_info = << >>
    /\ checksum = << >>
    /\ completed_requests = << >>
    /\ next_pairing_id = 1
    /\ file_size_in_bytes = << >>
    /\ bytes_streamed = << >>

\* the inputs and assets a caller passes to the workflows explored
WfInputConfigs == { [source |-> "None",      data |-> "Str_plain"],
                    [source |-> "None",      data |-> "Str_url"],
                    [source |-> "None",      data |-> "Path_exists"],
                    [source |-> "None",      data |-> "Path_missing"],
                    [source |-> "Primitive", data |-> "Str_url"] }
WfAssetConfigs == { [source |-> "None", data |-> "Path_exists"],
                    [source |-> "None", data |-> "Str_url"],
                    [source |-> "None", data |-> "Str_plain"],
                    [source |-> "File", data |-> "Path_exists"] }
WfDomains == { {}, {1}, {1, 2} }

\* the output configs a caller passes to invoke: none, or a consume mode (or
\* none) for some of the outputs
WfOutputConfigs == { << >>,
                     [t \in {1} |-> "stream"],
                     [t \in {1, 2} |-> IF t = 1 THEN "None" ELSE "stream"],
                     [t \in {1, 2} |-> IF t = 1 THEN "bytes" ELSE "None"] }

\* what the backend may return from the create call: None, an empty list, or
\* a record with some inputs (assets) and, for an invocation, outputs
WfInputLists == { << >>, << 1 >>, << 1, 2 >>, << 1, 2, 3 >> }
WfOutputLists == { << >>, << 1 >>, << 1, 2 >> }
CreateReplies ==
    { [kind |-> "None", records |-> << >>], [kind |-> "list", records |-> << >>] } \cup
    { [kind |-> "list", records |-> << [id |-> RecordId, inputs |-> ins, outputs |-> outs] >>] :
          ins \in WfInputLists,
          outs \in IF workflow = "invoke" THEN WfOutputLists ELSE { << >> } }

\* the responses of get_status_flags explored within a workflow: None, or one
\* flag of the same value for every entity
WfResponses(ids) ==
    {NoneResponse} \cup
    { [kind |-> "dict", flags |-> [e \in ids |-> << v >>]] :
          v \in {"In_Progress", "Finished", "Error"} }

\* one call of invoke or upload_model
WorkflowInit ==
    /\ PollIdle
    /\ CallsIdle
    /\ \E wf \in {"invoke", "upload_model"}, key \in {"None", "key"},
          token \in {"None", "expired", "valid"}, D \in WfDomains :
          \E raw \in [D -> IF wf = "invoke" THEN WfInputConfigs ELSE WfAssetConfigs],
             outs \in IF wf = "invoke" THEN WfOutputConfigs ELSE { << >> } :
              DispatchNotEntered(wf) /\ WorkflowStart(key, token, raw, outs)

WorkflowNext ==
    \/ InvalidateAccessToken
    \/ wf_pc = "login" /\ \E ok \in BOOLEAN : LoginReturns(ok)
    \/ wf_pc = "create" /\ \E reply \in CreateReplies : CreateReturns(reply)
    \/ DispatchNext
    \/ UploadsReturn
    \/ UploadsFail
    \/ WaitForEntities
    \/ BeginTick
    \/ TimeOut
    \/ poll_pc = "query" /\ \E resp \in WfResponses(entity_ids), d \in {0, MaxQueryTime} :
                                ReceiveFlags(resp, d)
    \/ poll_pc = "sleep" /\ \E over \in 0..MaxOversleep : Sleep(over)
    \/ PollReturns
    \/ PollFails
    \/ wf_pc = "resolve" /\ \E ok \in BOOLEAN : OutputResolves(ok)

(***************************************************************************)
(* The modality resolvers.  An encoding is a text in some letter case with *)
(* or without leading and trailing whitespace, or a value that is no text. *)
(***************************************************************************)
Modalities == {"Audio", "Image", "Text", "Video", "Float", "Integer", "File"}

\* SignatureModalityResolver._Encoding_Map
SignatureEncodings ==
    {"aac", "mp3", "wav", "jpg", "jpeg", "png", "txt", "utf-8", "utf-16", "avi", "mp4"}
SignatureEncodingMap(key) ==
    CASE key \in {"aac", "mp3", "wav"}      -> "Audio"
      [] key \in {"jpg", "jpeg", "png"}     -> "Image"
      [] key \in {"txt", "utf-8", "utf-16"} -> "Text"
      [] key \in {"avi", "mp4"}             -> "Video"

\* ParameterModalityResolver._Encoding_Map
ParameterEncodings ==
    {"aac", "mp3", "wav", "jpg", "jpeg", "png", "utf-8", "utf-16",
     "h264", "h265", "libx264", "rgb24", "x264", "yuv420p"}
ParameterEncodingMap(key) ==
    CASE key \in {"aac", "mp3", "wav"}  -> "Audio"
      [] key \in {"jpg", "jpeg", "png"} -> "Image"
      [] key \in {"utf-8", "utf-16"}    -> "Text"
      [] key \in {"h264", "h265", "libx264", "rgb24", "x264", "yuv420p"} -> "Video"

\* the encoding sets of DataModalityResolver (norman.helpers)
AUDIO_ENCODINGS == {"flac", "m4a", "mp3", "ogg", "wav"}
VIDEO_ENCODINGS == {"avi", "mkv", "mov", "mp4", "webm"}
IMAGE_ENCODINGS == {"bmp", "gif", "jpeg", "jpg", "png", "tiff", "webp"}
TEXT_ENCODINGS == {"ascii", "string", "str", "text", "txt", "utf"}
FLOAT_ENCODINGS == {"double", "f16", "f32", "f64", "float"}
INT_ENCODINGS == {"i8", "i16", "i32", "i64", "int", "uint"}
DataEncodings ==
    AUDIO_ENCODINGS \cup VIDEO_ENCODINGS \cup IMAGE_ENCODINGS \cup TEXT_ENCODINGS
        \cup FLOAT_ENCODINGS \cup INT_ENCODINGS

\* the texts explored: every key of a table, a text no table has, and the
\* empty text
EncodingTexts == SignatureEncodings \cup ParameterEncodings \cup DataEncodings \cup {"bogus", ""}

\* the encodings a caller may pass: None, a number, or a text written in
\* lower, upper or mixed case (the empty text has no letters), with or without
\* whitespace before and after it
Encodings ==
    { [kind |-> k, text |-> "", case |-> "lower", lead |-> FALSE, trail |-> FALSE] :
          k \in {"None", "int"} } \cup
    { e \in [kind : {"str"}, text : EncodingTexts, case : {"lower", "upper", "mixed"},
             lead : BOOLEAN, trail : BOOLEAN] : e.text = "" => e.case = "lower" }

\* isinstance(encoding, str)
is_str_encoding(encoding) == encoding.kind = "str"
\* lower with the text left as it is
lowerSkipped(encoding) == encoding
\* str.lower()
lower(encoding) == [encoding EXCEPT !.case = "lower"]
\* str.strip() of an encoding
strip_encoding(encoding) == [encoding EXCEPT !.lead = FALSE, !.trail = FALSE]
\* "not data_encoding" of a text: only the empty text is false
is_empty_text(encoding) == encoding.text = "" /\ ~encoding.lead /\ ~encoding.trail
\* the text as a key of a table: a table holds lower-case texts without
\* surrounding whitespace, so no other spelling equals a key
TableKey(encoding) ==
    IF encoding.case = "lower" /\ ~encoding.lead /\ ~encoding.trail
    THEN encoding.text ELSE "no key"

\* SignatureModalityResolver.resolve: the modality, or the exception raised
SignatureModalityResolver_resolve(encoding) ==
    IF encoding.kind = "None" \/ ~is_str_encoding(encoding) THEN "ValueError"
    ELSE LET stripped_encoding == TableKey(strip_encoding(lower(encoding)))
         IN  IF stripped_encoding \notin SignatureEncodings THEN "ValueError"
             ELSE SignatureEncodingMap(stripped_encoding)

\* ParameterModalityResolver.resolve: the modality, or the exception raised
ParameterModalityResolver_resolve(encoding) ==
    IF encoding.kind = "None" \/ ~is_str_encoding(encoding) THEN "ValueError"
    ELSE LET stripped_encoding == TableKey(strip_encoding(lower(encoding)))
         IN  IF stripped_encoding \notin ParameterEncodings THEN "ValueError"
             ELSE ParameterEncodingMap(stripped_encoding)

\* DataModalityResolver.resolve (norman.helpers, which no module imports):
\* File for a text of no set
DataModalityResolver_resolve(data_encoding) ==
    IF data_encoding.kind = "None" \/ ~is_str_encoding(data_encoding)
       \/ is_empty_text(data_encoding)
    THEN "ValueError"
    ELSE LET encoding == TableKey(strip_encoding(lower(data_encoding)))
         IN  IF encoding \in AUDIO_ENCODINGS THEN "Audio"
             ELSE IF encoding \in VIDEO_ENCODINGS THEN "Video"
             ELSE IF encoding \in IMAGE_ENCODINGS THEN "Image"
             ELSE IF encoding \in TEXT_ENCODINGS THEN "Text"
             ELSE IF encoding \in FLOAT_ENCODINGS THEN "Float"
             ELSE IF encoding \in INT_ENCODINGS THEN "Integer"
             ELSE "File"

(***************************************************************************)
(* One call of a resolver.                                                 *)
(***************************************************************************)
\* every variable but resolver_call
notResolverVars ==
    << pollVars, dispVars, caller_pc, login_completed, wf_pc, api_key, account_id, id_token,
       access_token, login_calls, create_calls, raw_configs, create_reply, validated, created,
       resolved, output_configs, invocation_results, wf_error, wf_result, resolve_calls >>

\* the call returns result: a value, or the name of the exception raised
ResolverReturns(result) ==
    /\ resolver_call' = [resolver_call EXCEPT
                            !.pc = IF result \in {"ValueError", "FileNotFoundError"}
                                   THEN "raised" ELSE "returned",
                            !.result = result]
    /\ UNCHANGED notResolverVars

\* norman.resolvers.InputSourceResolver.resolve(data) runs
ResolveSource ==
    /\ resolver_call.pc = "called"
    /\ resolver_call.fn = "InputSourceResolver.resolve"
    /\ ResolverReturns(Resolve(resolver_call.arg))

\* norman.helpers.InputSourceResolver.resolve(data) runs
ResolveSourceHelpers ==
    /\ resolver_call.pc = "called"
    /\ resolver_call.fn = "helpers.InputSourceResolver.resolve"
    /\ ResolverReturns(HelpersResolve(resolver_call.arg))

\* SignatureModalityResolver.resolve(encoding) runs
ResolveSignatureModality ==
    /\ resolver_call.pc = "called"
    /\ resolver_call.fn = "SignatureModalityResolver.resolve"
    /\ ResolverReturns(SignatureModalityResolver_resolve(resolver_call.arg))

\* ParameterModalityResolver.resolve(encoding) runs
ResolveParameterModality ==
    /\ resolver_call.pc = "called"
    /\ resolver_call.fn = "ParameterModalityResolver.resolve"
    /\ ResolverReturns(ParameterModalityResolver_resolve(resolver_call.arg))

\* norman.helpers.DataModalityResolver.resolve(data_encoding) runs
ResolveDataModality ==
    /\ resolver_call.pc = "called"
    /\ resolver_call.fn = "DataModalityResolver.resolve"
    /\ ResolverReturns(DataModalityResolver_resolve(resolver_call.arg))

SourceResolvers == {"InputSourceResolver.resolve", "helpers.InputSourceResolver.resolve"}
ModalityResolvers == {"SignatureModalityResolver.resolve", "ParameterModalityResolver.resolve",
                      "DataModalityResolver.resolve"}

\* a resolver is called on one of the values explored
ResolverInit ==
    /\ PollIdle
    /\ DispatchIdle
    /\ WorkflowIdle
    /\ caller_pc = << >>
    /\ login_completed = << >>
    /\ \/ \E fn \in SourceResolvers, data \in DataValues :
             resolver_call = [pc |-> "called", fn |-> fn, arg |-> data, result |-> "none"]
       \/ \E fn \in ModalityResolvers, encoding \in Encodings :
             resolver_call = [pc |-> "called", fn |-> fn, arg |-> encoding, result |-> "none"]

ResolverNext ==
    \/ ResolveSource
    \/ ResolveSourceHelpers
    \/ ResolveSignatureModality
    \/ ResolveParameterModality
    \/ ResolveDataModality

(***************************************************************************)
(* Callers sharing the AuthenticationManager: concurrent calls of          *)
(* invalidate_access_token on one event loop.                              *)
(***************************************************************************)
MaxCallers == 2
Callers == 1..MaxCallers

\* the access token the login of caller c is answered with
IssuedToken(c) == "token_" \o ToString(c)

\* the response login_password_name gives caller c: the account the name
\* belongs to, with tokens of its own
PasswordLoginResponse(c) ==
    [account |-> [id |-> "account_" \o ToString(c)],
     access_token |-> IssuedToken(c),
     id_token |-> "id_of_" \o IssuedToken(c)]

\* the login_response the login of caller c is answered with
ResponseOf(c) == IF caller_pc[c].by = "password" THEN PasswordLoginResponse(c)
                 ELSE LoginResponse(IssuedToken(c))

\* caller c calls login_with_password_by_name: the request is sent and its
\* response awaited
CallerLoginsWithPassword(c) ==
    /\ caller_pc[c].pc = "start"
    /\ caller_pc[c].by = "password"
    /\ caller_pc' = [caller_pc EXCEPT ![c].pc = "login"]
    /\ UNCHANGED << api_key, access_token, account_id, id_token, login_calls, login_completed,
                    resolver_call >>
    /\ UNCHANGED << wf_pc, create_calls, raw_configs, create_reply, validated, created, resolved,
                    output_configs, invocation_results, wf_error, wf_result, resolve_calls >>
    /\ UNCHANGED pollVars
    /\ UNCHANGED dispVars

\* caller c calls invalidate_access_token: the test of the (uncalled)
\* access_token_expired, then _login_with_api_key up to the await of
\* login_with_key (or its ValueError for a missing key)
CallerInvalidates(c) ==
    /\ caller_pc[c].pc = "start"
    /\ caller_pc[c].by = "api_key"
    /\ LET observed == access_token_expired(access_token)
       IN  IF access_token_expired_attribute(access_token)
           THEN IF api_key \in {"None", ""}
                THEN /\ caller_pc' = [caller_pc EXCEPT ![c].pc = "failed", ![c].expired = observed]
                     /\ UNCHANGED login_calls
                ELSE /\ caller_pc' = [caller_pc EXCEPT ![c].pc = "login", ![c].expired = observed]
                     /\ login_calls' = login_calls + 1
           ELSE /\ caller_pc' = [caller_pc EXCEPT ![c].pc = "done", ![c].expired = observed]
                /\ UNCHANGED login_calls
    /\ UNCHANGED << api_key, access_token, account_id, id_token, login_completed, resolver_call >>
    /\ UNCHANGED << wf_pc, create_calls, raw_configs, create_reply, validated, created, resolved,
                    output_configs, invocation_results, wf_error, wf_result, resolve_calls >>
    /\ UNCHANGED pollVars
    /\ UNCHANGED dispVars

\* CallerLoginReturns where a login that finds a valid token keeps it
CallerLoginReturnsKeepsValid(c, ok) ==
    /\ caller_pc[c].pc = "login"
    /\ IF ok
       THEN LET login_response == ResponseOf(c)
                keep == ~access_token_expired(access_token)
            IN  /\ account_id' = login_response.account.id
                /\ access_token' = IF keep THEN access_token ELSE login_response.access_token
                /\ id_token' = IF keep THEN id_token ELSE login_response.id_token
                /\ login_completed' = Append(login_completed, c)
                /\ caller_pc' = [caller_pc EXCEPT ![c].pc = "done"]
       ELSE /\ caller_pc' = [caller_pc EXCEPT ![c].pc = "failed"]
            /\ UNCHANGED << access_token, account_id, id_token, login_completed >>
    /\ UNCHANGED << api_key, login_calls, resolver_call >>
    /\ UNCHANGED << wf_pc, create_calls, raw_configs, create_reply, validated, created, resolved,
                    output_configs, invocation_results, wf_error, wf_result, resolve_calls >>
    /\ UNCHANGED pollVars
    /\ UNCHANGED dispVars

\* CallerLoginReturns with a suspension between the assignments: the tokens
\* are stored when the response arrives, the account id is left for later
CallerLoginReturnsTorn(c, ok) ==
    /\ caller_pc[c].pc = "login"
    /\ IF ok
       THEN LET login_response == ResponseOf(c)
            IN  /\ access_token' = login_response.access_token
                /\ UNCHANGED << account_id, id_token >>
                /\ login_completed' = Append(login_completed, c)
                /\ caller_pc' = [caller_pc EXCEPT ![c].pc = "done"]
       ELSE /\ caller_pc' = [caller_pc EXCEPT ![c].pc = "failed"]
            /\ UNCHANGED << access_token, account_id, id_token, login_completed >>
    /\ UNCHANGED << api_key, login_calls, resolver_call >>
    /\ UNCHANGED << wf_pc, create_calls, raw_configs, create_reply, validated, created, resolved,
                    output_configs, invocation_results, wf_error, wf_result, resolve_calls >>
    /\ UNCHANGED pollVars
    /\ UNCHANGED dispVars

\* the login request of caller c returns (or raises): the three fields are
\* assigned with no await in between (_login_with_api_key, _set_login_response)
\* and the call returns
CallerLoginReturns(c, ok) ==
    /\ caller_pc[c].pc = "login"
    /\ IF ok
       THEN LET login_response == ResponseOf(c)
            IN  /\ account_id' = login_response.account.id
                /\ access_token' = login_response.access_token
                /\ id_token' = login_response.id_token
                /\ login_completed' = Append(login_completed, c)
                /\ caller_pc' = [caller_pc EXCEPT ![c].pc = "done"]
       ELSE /\ caller_pc' = [caller_pc EXCEPT ![c].pc = "failed"]
            /\ UNCHANGED << access_token, account_id, id_token, login_completed >>
    /\ UNCHANGED << api_key, login_calls, resolver_call >>
    /\ UNCHANGED << wf_pc, create_calls, raw_configs, create_reply, validated, created, resolved,
                    output_configs, invocation_results, wf_error, wf_result, resolve_calls >>
    /\ UNCHANGED pollVars
    /\ UNCHANGED dispVars

\* invalidate_access_token has returned to caller c, whose workflow reads the
\* access_token property for its create call: the token the manager holds at
\* that moment, or ValueError when it holds none
CallerReadsToken(c) ==
    /\ caller_pc[c].pc = "done"
    /\ caller_pc' = IF access_token = "None"
                    THEN [caller_pc EXCEPT ![c].pc = "failed"]
                    ELSE [caller_pc EXCEPT ![c].pc = "create", ![c].token = access_token]
    /\ UNCHANGED << api_key, access_token, account_id, id_token, login_calls, login_completed,
                    resolver_call >>
    /\ UNCHANGED << wf_pc, create_calls, raw_configs, create_reply, validated, created, resolved,
                    output_configs, invocation_results, wf_error, wf_result, resolve_calls >>
    /\ UNCHANGED pollVars
    /\ UNCHANGED dispVars

\* the callers are about to call invalidate_access_token or
\* login_with_password_by_name on the shared manager, which holds a key or
\* none and no, an expired or a valid token
AuthInit ==
    /\ PollIdle
    /\ DispatchIdle
    /\ NoWorkflow
    /\ resolver_call = NoCall
    /\ login_completed = << >>
    /\ \E by \in [Callers -> {"api_key", "password"}] :
          caller_pc = [c \in Callers |->
                          [pc |-> "start", by |-> by[c], expired |-> FALSE, token |-> "unset"]]
    /\ \E key \in {"None", "key"}, token \in {"None", "expired", "valid"} :
          /\ api_key = key
          /\ access_token = token
          /\ account_id = PriorLogin(token).account_id
          /\ id_token = PriorLogin(token).id_token

AuthNext ==
    \/ \E c \in Callers : CallerInvalidates(c)
    \/ \E c \in Callers : CallerLoginsWithPassword(c)
    \/ \E c \in Callers, ok \in BOOLEAN : CallerLoginReturns(c, ok)
    \/ \E c \in Callers : CallerReadsToken(c)

(***************************************************************************)
(* Specifications.                                                         *)
(***************************************************************************)
\* one call of wait_for_entities
SpecPoller == PollInit /\ [][PollNext]_vars

\* one call of _upload_inputs or _upload_assets
SpecDispatch == DispatchInit /\ [][DispatchNext]_vars

\* one call of invoke or upload_model, from the token refresh to the return
SpecWorkflow == WorkflowInit /\ [][WorkflowNext]_vars

\* the same, where an exception that has left the dispatcher or the poller
\* goes on to leave the workflow coroutine awaiting it
FairWorkflow == SpecWorkflow /\ WF_vars(UploadsFail) /\ WF_vars(PollFails)

\* a poll whose coroutine is resumed whenever it can go on: each status query
\* returns and each sleep ends
FairPoller == SinglePollInit /\ [][PollNext]_vars /\ WF_vars(PollNext)

\* one call of a source or modality resolver
SpecResolvers == ResolverInit /\ [][ResolverNext]_vars

\* concurrent calls of invalidate_access_token on the shared manager
SpecAuth == AuthInit /\ [][AuthNext]_vars

Init == PollInit \/ DispatchInit \/ WorkflowInit \/ ResolverInit \/ AuthInit
Next == PollNext \/ DispatchNext \/ WorkflowNext \/ ResolverNext \/ AuthNext
Spec == Init /\ [][Next]_vars

(***************************************************************************)
(* Properties of the completion poller.                                    *)
(***************************************************************************)
\* some flag of the response has value v
HasFlag(resp, v) ==
    /\ resp.kind = "dict"
    /\ \E e \in DOMAIN resp.flags : \E i \in 1..Len(resp.flags[e]) : resp.flags[e][i] = v

HasError(resp) == HasFlag(resp, "Error")
HasPending(resp) == \E v \in {"Not_Started", "Enqueued", "In_Progress"} : HasFlag(resp, v)

\* the number of flags the response holds
RECURSIVE FlagCount(_, _)
FlagCount(resp, S) ==
    IF S = {} THEN 0
    ELSE LET e == CHOOSE x \in S : TRUE
         IN Len(resp.flags[e]) + FlagCount(resp, S \ {e})
NoFlags(resp) == resp.kind = "None" \/ (resp.kind = "dict" /\ FlagCount(resp, DOMAIN resp.flags) = 0)

\* C1: a response that holds an Error flag ends the call on that very tick
\* with the entity-failed error, whatever the other flags are: the call is
\* never found sleeping or back at the loop head with such a response, and no
\* sleep was issued on that tick.
C1_ErrorFlagFailsAtOnce ==
    HasError(status_flags) => (poll_pc = "raised_error" /\ sleeps < polls)

\* C1 witness: the error is raised on a later tick, among Finished flags
C1_Witness ==
    /\ poll_pc = "raised_error"
    /\ polls >= 2
    /\ HasFlag(status_flags, "Finished")

C3_NoSuccessWithFlaglessEntity ==
    poll_pc = "returned" =>
        \A e \in entity_ids :
            e \in DOMAIN status_flags.flags /\ Len(status_flags.flags[e]) > 0

\* C4 (as claimed): a response that holds no flag at all (None, or a dict
\* with zero flags) ends the call with the no-flags-found error.
C4_NoFlagsRaises ==
    (status_flags.kind # "unset" /\ NoFlags(status_flags)) => poll_pc = "raised_noflags"

\* C5: with an empty entity-ID collection the call fails before any status
\* query is issued, and never returns success.
C5_EmptySetFailsBeforeQuery ==
    entity_ids = {} => (polls = 0 /\ poll_pc \in {"start", "raised_empty"})

\* C5 witness: the call on an empty collection has failed
C5_Witness == entity_ids = {} /\ poll_pc = "raised_empty"

\* C6: a loop test made once the elapsed time has reached the timeout raises
\* TimeoutError; TimeoutError is raised only then; no query is issued at or
\* after the deadline, so the number of queries is bounded by the timeout.
C6_TimesOut ==
    /\ [][(poll_pc = "loop" /\ now - wait_start_time >= flag_timeout_seconds)
            => poll_pc' = "raised_timeout"]_vars
    /\ [][polls' # polls => now - wait_start_time < flag_timeout_seconds]_vars
    /\ [](poll_pc = "raised_timeout" => now - wait_start_time >= flag_timeout_seconds)
    /\ [](polls >= 1 => (polls - 1) * get_flags_interval < flag_timeout_seconds)

\* C6 witness: the call timed out after several unfinished ticks
C6_Witness ==
    /\ poll_pc = "raised_timeout"
    /\ polls >= 2
    /\ HasPending(status_flags)

\* C7 (as claimed): a successful call has issued exactly as many queries as
\* the position of the first all-Finished response, and one sleep between
\* every two consecutive queries.
C7_SleepBetweenAllQueries ==
    poll_pc = "returned" => (polls = first_finished /\ sleeps = polls - 1)

\* C7 (amended): a successful call has issued exactly as many queries as the
\* position of the first all-Finished response; an unfinished tick is followed
\* by a sleep exactly when it took less than the polling interval; nothing but
\* an unfinished tick issues a sleep, so no sleep follows the final query.
C7_SleepOnlyAfterFastTick ==
    /\ [](poll_pc = "returned" => (polls = first_finished /\ sleeps <= polls - 1))
    /\ [][(poll_pc = "query" /\ poll_pc' \in {"sleep", "loop"})
            => /\ (sleeps' = sleeps + 1) <=> (now' - iteration_start_time < get_flags_interval)
               /\ (sleeps' = sleeps + 1) <=> (poll_pc' = "sleep")
               /\ sleeps' \in {sleeps, sleeps + 1}]_vars
    /\ [][~(poll_pc = "query" /\ poll_pc' \in {"sleep", "loop"}) => sleeps' = sleeps]_vars

\* C7 witness: success on the third query, after one slow and one fast tick
C7_Witness ==
    /\ poll_pc = "returned"
    /\ polls = 3
    /\ sleeps = 1

(***************************************************************************)
(* Properties of the upload dispatcher and of one transfer.                *)
(***************************************************************************)
Items == DOMAIN item_pc
InFlight == {"opening", "allocating", "writing", "finalizing", "submitting"}
Started(i) == item_pc[i] # "pending"

C9_FirstFailureSurfaces ==
    /\ [](\A i \in Items : item_pc[i] = "failed" =>
             /\ disp_pc = "failed"
             /\ Len(disp_error) = 1
             /\ disp_error[1].item = i
             /\ \A j \in Items \ {i} : Started(j) => (j < i /\ item_pc[j] = "done"))
    /\ [](disp_pc = "failed" => Len(disp_error) = 1)
    /\ [][\A i \in Items : item_pc[i] = "done" =>
             (item_pc'[i] = "done" /\ item_log'[i] = item_log[i])]_vars

\* C9 witness: the second item's write failed after the first item's
\* transfer had completed
C9_Witness ==
    /\ disp_pc = "failed"
    /\ Len(record) >= 2
    /\ item_pc[1] = "done" /\ socket_info[1] # 0
    /\ item_pc[2] = "failed"
    /\ disp_error = << [item |-> 2, error |-> "WriteError"] >>

\* the calls of upload_from_buffer made for item i, with their returns
TransferEvents == {"allocate_socket_for_asset", "allocate_socket_for_input", "allocated",
                   "write_and_digest", "written", "complete_file_transfer", "completed"}
IsTransferEvent(e) == e \in TransferEvents
TransferLog(i) == SelectSeq(item_log[i], IsTransferEvent)
IsAllocate(e) == e \in {"allocate_socket_for_asset", "allocate_socket_for_input"}
StepOrder == << "allocated", "write_and_digest", "written", "complete_file_transfer", "completed" >>
\* log is a prefix of: allocate, allocated, write, written, complete, completed
InStepOrder(log) ==
    /\ Len(log) <= 6
    /\ Len(log) >= 1 => IsAllocate(log[1])
    /\ \A k \in 2..Len(log) : log[k] = StepOrder[k - 1]

\* C10: in every upload_from_buffer call the socket allocation, the write and
\* the finalize are called in this order, each only after the previous call
\* has returned, and a transfer that succeeded has made each call exactly once.
C10_TransferStepsInOrder ==
    \A i \in Items :
        /\ InStepOrder(TransferLog(i))
        /\ item_pc[i] = "writing" => socket_info[i] # 0
        /\ item_pc[i] = "finalizing" => (socket_info[i] # 0 /\ checksum[i] # << >>)
        /\ (item_pc[i] = "done" /\ TransferLog(i) # << >>) => Len(TransferLog(i)) = 6

\* C10 witness: a file's transfer has run all three steps
C10_Witness ==
    \E i \in Items :
        /\ item_pc[i] = "done"
        /\ item_log[i] = << "getsize", "open", "opened", "allocate_socket_for_input", "allocated",
                            "write_and_digest", "written", "complete_file_transfer", "completed" >>

\* how often the call e was made for an item
Count(log, e) == Cardinality({ k \in DOMAIN log : log[k] = e })
Called(log, e) == \E k \in DOMAIN log : log[k] = e
\* the calls that go to a server or to the socket
RemoteCalls == {"allocate_socket_for_asset", "allocate_socket_for_input", "write_and_digest",
                "complete_file_transfer", "submit_links"}
\* the error with which item i failed ("none" if it did not)
FailureOf(i) ==
    IF \E k \in DOMAIN disp_error : disp_error[k].item = i
    THEN (CHOOSE r \in Range(disp_error) : r.item = i).error
    ELSE "none"
Finalized(i) == \E k \in DOMAIN completed_requests : completed_requests[k].item = i

\* C11: a failed step of a transfer ends the transfer and reaches the caller
\* of the dispatch: no call is made twice for an item (no retry), the raise is
\* the last event of the item, and the item stays as it failed; after a failed
\* allocation nothing was written and no finalize was sent, after a failed
\* write no finalize was sent.
C11_FailedStepEndsTransfer ==
    /\ [](\A i \in Items :
            /\ \A e \in RemoteCalls : Count(item_log[i], e) <= 1
            /\ Called(item_log[i], "raise") =>
                  /\ item_pc[i] = "failed"
                  /\ item_log[i][Len(item_log[i])] = "raise"
                  /\ disp_pc = "failed"
                  /\ FailureOf(i) # "none"
            /\ FailureOf(i) = "AllocateError" =>
                  /\ socket_info[i] = 0
                  /\ ~Called(item_log[i], "write_and_digest")
                  /\ ~Called(item_log[i], "complete_file_transfer")
                  /\ ~Finalized(i)
            /\ FailureOf(i) = "WriteError" =>
                  /\ checksum[i] = << >>
                  /\ ~Called(item_log[i], "complete_file_transfer")
                  /\ ~Finalized(i))
    /\ [][\A i \in Items : item_pc[i] = "failed" =>
             (item_pc'[i] = "failed" /\ item_log'[i] = item_log[i]
              /\ completed_requests' = completed_requests)]_vars

\* C11 witness: the write of a file item failed after its socket was allocated
C11_Witness ==
    \E i \in Items :
        /\ FailureOf(i) = "WriteError"
        /\ socket_info[i] # 0
        /\ item_log[i] = << "getsize", "open", "opened", "allocate_socket_for_input", "allocated",
                            "write_and_digest", "raise" >>

(***************************************************************************)
(* Properties of the workflows.                                            *)
(***************************************************************************)
\* no server call of the workflow but the login has been issued yet: no
\* create call, no allocation, write, finalize or link submission, no status
\* query, no output retrieval
NoServerCallYet ==
    /\ create_calls = 0
    /\ disp_pc = "idle"
    /\ \A i \in Items : item_log[i] = << >>
    /\ completed_requests = << >>
    /\ poll_pc = "idle"
    /\ polls = 0
    /\ resolved = << >>
    /\ wf_pc # "resolve"

\* C12: in invoke and in upload_model no other server call is issued while
\* invalidate_access_token has not returned; the create call is issued by
\* the step that ends the refresh, with the refreshed token in place; a
\* refresh that fails leaves the workflow without any other server call.
C12_AuthBeforeServerCalls ==
    /\ [](wf_pc \in {"auth", "login"} => NoServerCallYet)
    /\ [](~NoServerCallYet => ~access_token_expired(access_token))
    /\ [][create_calls' # create_calls =>
             (wf_pc \in {"auth", "login"} /\ ~access_token_expired(access_token'))]_vars
    /\ [](wf_error = "LoginError" => NoServerCallYet)

\* C12 witness: an invoke call that logged in has created its record,
\* uploaded through a socket, polled and is retrieving an output
C12_Witness ==
    /\ workflow = "invoke"
    /\ wf_pc = "resolve"
    /\ login_calls = 1
    /\ create_calls = 1
    /\ completed_requests # << >>
    /\ polls >= 1

\* C13 (as claimed): invalidate_access_token sends a login request when the
\* token held is absent or expired (and an API key is set), and sends none
\* when a present, unexpired token is held.
C13_LoginOnlyWhenAbsentOrExpired ==
    /\ [][(wf_pc = "auth" /\ access_token_expired(access_token) /\ api_key = "key")
             => login_calls' = login_calls + 1]_vars
    /\ [][(wf_pc = "auth" /\ ~access_token_expired(access_token))
             => login_calls' = login_calls]_vars

\* every item of the record has run to completion
AllUploadsDone == \A i \in Items : item_pc[i] = "done"

\* C14: within one workflow call the stages run one after another: the
\* uploads begin only once the record has been created; the poller is entered
\* only after the dispatcher has returned, so the dispatcher and the poller
\* are never active together and every status query is sent after all uploads
\* of the call have completed; outputs are retrieved only by invoke and only
\* after the poller has returned.
C14_StagesInSequence ==
    /\ [](disp_pc # "idle" => (create_calls = 1 /\ created # NoRecord /\ wf_pc # "create"))
    /\ [](disp_pc \in {"loop", "failed"} => (poll_pc = "idle" /\ polls = 0))
    /\ [](poll_pc # "idle" => (disp_pc = "done" /\ AllUploadsDone))
    /\ [][polls' # polls => (disp_pc = "done" /\ AllUploadsDone /\ UNCHANGED dispVars)]_vars
    /\ []((wf_pc = "resolve" \/ resolved # << >>) =>
             (workflow = "invoke" /\ poll_pc = "returned" /\ disp_pc = "done"))
    /\ [][item_log' # item_log => (poll_pc = "idle" /\ wf_pc \in {"create", "upload"})]_vars

\* C14 witness: the second status query of a call whose two uploads have
\* completed is in flight
C14_Witness ==
    /\ wf_pc = "poll"
    /\ poll_pc = "query"
    /\ polls = 2
    /\ Len(record) = 2
    /\ AllUploadsDone
    /\ disp_pc = "done"

\* C15: when the create call returns None or an empty list, invoke and
\* upload_model fail with the creation-failed RuntimeError: the create call
\* was sent once and is not sent again, no upload has started, no status
\* query and no output retrieval is made, and nothing is returned.
C15_CreationFailureIsFatal ==
    /\ [](create_reply \in {"None", "empty"} =>
             /\ wf_pc = "failed"
             /\ wf_error = "RuntimeError"
             /\ create_calls = 1
             /\ created = NoRecord
             /\ disp_pc = "idle" /\ Items = {} /\ completed_requests = << >>
             /\ poll_pc = "idle" /\ polls = 0
             /\ resolved = << >>
             /\ wf_result = "none")
    /\ [](create_calls <= 1)

\* C15 witness: upload_model has failed on an empty list, invoke on None
C15_Witness ==
    /\ wf_pc = "failed"
    /\ wf_error = "RuntimeError"
    /\ \/ workflow = "upload_model" /\ create_reply = "empty" /\ DOMAIN raw_configs = {1, 2}
       \/ workflow = "invoke" /\ create_reply = "None" /\ DOMAIN raw_configs = {1, 2}

PollRaised == poll_pc \in {"raised_empty", "raised_noflags", "raised_error", "raised_timeout"}

\* C16: a failure of any stage reaches the caller as the workflow's failure,
\* with the error of that stage; once a stage has failed no later stage is
\* entered and nothing more happens after the workflow has failed; a failed
\* workflow returns nothing; invoke returns its output map (every output
\* resolved) and upload_model its model only after the poller has returned
\* successfully.
C16_FailuresReachTheCaller ==
    /\ [](wf_result # "none" =>
             /\ wf_pc = "returned" /\ wf_error = "none"
             /\ disp_pc = "done" /\ poll_pc = "returned")
    /\ [](wf_pc = "returned" =>
             /\ poll_pc = "returned"
             /\ wf_result = IF workflow = "invoke" THEN "outputs" ELSE "model"
             /\ workflow = "invoke" => resolved = created.outputs)
    /\ [](wf_pc = "failed" => (wf_error # "none" /\ wf_result = "none"))
    /\ [](disp_pc = "failed" =>
             /\ wf_pc \in {"upload", "failed"}
             /\ poll_pc = "idle" /\ polls = 0 /\ resolved = << >>
             /\ wf_pc = "failed" => wf_error = disp_error[1].error)
    /\ [](PollRaised =>
             /\ wf_pc \in {"poll", "failed"}
             /\ resolved = << >>
             /\ wf_pc = "failed" => wf_error = PollError)
    /\ [](wf_error \in {"FileNotFoundError", "LoginError", "RuntimeError"} /\ disp_pc = "idle"
             => (poll_pc = "idle" /\ resolved = << >> /\ wf_pc = "failed"))
    /\ [][wf_pc = "failed" => UNCHANGED vars]_vars
    /\ (disp_pc = "failed" ~> wf_pc = "failed")
    /\ (PollRaised ~> wf_pc = "failed")

\* C16 witness: invoke has failed with the poller's timeout before any of
\* its outputs was retrieved
C16_Witness ==
    /\ workflow = "invoke"
    /\ wf_pc = "failed"
    /\ wf_error = "TimeoutError"
    /\ poll_pc = "raised_timeout"
    /\ Len(created.outputs) = 2
    /\ resolved = << >>

(***************************************************************************)
(* Properties of the choice of an item's operation.                        *)
(***************************************************************************)
\* the source of an item: the declared one, else the classifier's
SourceOf(cfg) == IF cfg.source # "None" THEN cfg.source ELSE Resolve(cfg.data)

\* the items the for loop has reached and found a config for, an asset with a
\* declared source apart (C18 is about those)
Dispatched(i) ==
    /\ cursor > i
    /\ record[i] \in DOMAIN configs
    /\ workflow = "invoke" \/ configs[record[i]].source = "None"

IsAllocateCall(log, k) == log[k] \in {"allocate_socket_for_asset", "allocate_socket_for_input"}

\* item i runs one transfer session and no link submission
OneTransferSession(i) ==
    /\ item_pc[i] # "pending"
    /\ item_log[i] # << >>
    /\ ~Called(item_log[i], "submit_links")
    /\ Cardinality({ k \in DOMAIN item_log[i] : IsAllocateCall(item_log[i], k) }) <= 1
    /\ item_pc[i] \in {"allocating", "writing", "finalizing", "done"} =>
          Cardinality({ k \in DOMAIN item_log[i] : IsAllocateCall(item_log[i], k) }) = 1
    /\ item_pc[i] = "done" => (Len(TransferLog(i)) = 6 /\ Finalized(i))

\* item i is submitted to the file-pull service, with no socket, write or
\* finalize
OneLinkSubmission(i) ==
    /\ item_log[i] \in { << "submit_links" >>, << "submit_links", "submitted" >>,
                         << "submit_links", "raise" >> }
    /\ TransferLog(i) = << >>
    /\ socket_info[i] = 0
    /\ checksum[i] = << >>
    /\ ~Finalized(i)

\* item i failed with the unsupported-source error before any operation
NoOperation(i) ==
    /\ item_pc[i] = "pending"
    /\ item_log[i] = << >>
    /\ socket_info[i] = 0
    /\ ~Finalized(i)
    /\ disp_pc = "failed"
    /\ disp_error = << [item |-> i, error |-> "ValueError"] >>

\* every dispatched item runs the operation of its source, where the sources
\* in transferable run a transfer session
OperationBySource(transferable) ==
    \A i \in Items : Dispatched(i) =>
        LET source == SourceOf(configs[record[i]])
        IN  /\ source \in transferable => OneTransferSession(i)
            /\ source = "Link" => OneLinkSubmission(i)
            /\ source \notin (transferable \cup {"Link"}) => NoOperation(i)

FirstCallOf(source) ==
    IF source = "Primitive" THEN "normalize_primitive_data"
    ELSE IF source = "File" THEN "getsize"
    ELSE IF source = "Link" THEN "submit_links"
    ELSE "get_buffer_size"
\* the handler that ran for item i is the one of source
HandlerRan(i, source) ==
    /\ item_log[i] # << >>
    /\ item_log[i][1] = FirstCallOf(source)
\* InputSourceResolver.resolve was called by the dispatcher for the title
ResolvedByDispatcher(title) ==
    \E k \in DOMAIN resolve_calls : resolve_calls[k] = [by |-> "dispatcher", title |-> title]

\* C18 (as claimed): in upload_model an asset with a declared source (File,
\* Stream or Link) is uploaded by the handler of that source, whatever its
\* data is, and the classifier is called exactly for the assets without one.
C18_DeclaredSourceChoosesHandler ==
    \A i \in Items :
        (workflow = "upload_model" /\ cursor > i /\ record[i] \in DOMAIN configs) =>
            LET cfg == configs[record[i]]
            IN  /\ cfg.source # "None" => HandlerRan(i, cfg.source)
                /\ ResolvedByDispatcher(record[i]) <=> cfg.source = "None"

\* how often the factory called InputSourceResolver.resolve for the title
FactoryCalls(title) ==
    Cardinality({ k \in DOMAIN resolve_calls :
                     resolve_calls[k] = [by |-> "factory", title |-> title] })

\* C19: once InvocationConfigFactory.create has returned, every input has a
\* source: the one it was given, with no classifier call for that input, or
\* else the classifier's result for its data, from one call; the dispatcher
\* works on these configs, runs for each input the handler of that source
\* and never calls the classifier.
C19_SourceFixedByFactory ==
    (workflow = "invoke" /\ create_calls >= 1) =>
        /\ DOMAIN validated = DOMAIN raw_configs
        /\ \A t \in DOMAIN validated :
              /\ validated[t].source \in Sources
              /\ validated[t].data = raw_configs[t].data
              /\ raw_configs[t].source # "None" =>
                    (validated[t].source = raw_configs[t].source /\ FactoryCalls(t) = 0)
              /\ raw_configs[t].source = "None" =>
                    (validated[t].source = Resolve(raw_configs[t].data) /\ FactoryCalls(t) = 1)
        /\ disp_pc # "idle" => configs = validated
        /\ \A k \in DOMAIN resolve_calls : resolve_calls[k].by = "factory"
        /\ \A i \in Items : (cursor > i /\ record[i] \in DOMAIN validated) =>
              (item_log[i] # << >> => HandlerRan(i, validated[record[i]].source))

\* C19 witness: an input declared Primitive whose data is a URL was uploaded
\* as a primitive, and an input without a source whose data is a URL was
\* submitted as a link
C19_Witness ==
    /\ workflow = "invoke"
    /\ DOMAIN raw_configs = {1, 2}
    /\ raw_configs[1] = [source |-> "Primitive", data |-> "Str_url"]
    /\ raw_configs[2] = [source |-> "None", data |-> "Str_url"]
    /\ Len(record) = 2
    /\ item_pc[1] = "done" /\ item_log[1][1] = "normalize_primitive_data"
    /\ item_pc[2] = "done" /\ item_log[2][1] = "submit_links"
    /\ resolve_calls = << [by |-> "factory", title |-> 2] >>

\* the id of the created invocation with the ids of all its inputs and outputs
ExpectedInvocationEntities ==
    {created.id} \cup { InputId(created.inputs[k]) : k \in DOMAIN created.inputs }
                 \cup { OutputId(created.outputs[k]) : k \in DOMAIN created.outputs }

\* C20: the entity ids invoke polls are exactly the invocation's id and the
\* ids of all its inputs and all its outputs; the set is built after the
\* uploads have returned, it does not change while the poll runs, and every
\* status query is constrained to it.
C20_PolledEntitySet ==
    /\ []((workflow = "invoke" /\ poll_pc # "idle") =>
             /\ entity_ids = ExpectedInvocationEntities
             /\ QueryConstraints_includes(entity_ids).values = ExpectedInvocationEntities
             /\ disp_pc = "done")
    /\ []((workflow = "invoke" /\ poll_pc = "idle") => (entity_ids = {} /\ polls = 0))
    /\ [][(workflow = "invoke" /\ poll_pc # "idle") =>
             (entity_ids' = entity_ids /\ created' = created)]_vars

\* C20 witness: the second query of an invocation with two inputs and two
\* outputs is in flight, on five entity ids
C20_Witness ==
    /\ workflow = "invoke"
    /\ poll_pc = "query"
    /\ polls = 2
    /\ Len(created.inputs) = 2
    /\ Len(created.outputs) = 2
    /\ Cardinality(entity_ids) = 5

(***************************************************************************)
(* Properties of upload_model's entity set, of invoke's result and of the  *)
(* finalize request.                                                       *)
(***************************************************************************)
\* the ids of the assets of the created model
CreatedAssetIds == { InputId(created.inputs[k]) : k \in DOMAIN created.inputs }

\* C21: the entity ids upload_model polls are the id of the created model
\* version and the ids of all assets of that version, and nothing else.
C21_PolledVersionAndAssets ==
    (workflow = "upload_model" /\ poll_pc # "idle") =>
        entity_ids = {VersionId} \cup CreatedAssetIds

\* C21, what the code polls: the id of the model itself (model.id) and the
\* ids of its assets
C21_PolledModelAndAssets ==
    (workflow = "upload_model" /\ poll_pc # "idle") =>
        /\ entity_ids = {created.id} \cup CreatedAssetIds
        /\ VersionId \notin entity_ids

\* C21 witness: upload_model polls for a model with two assets
C21_Witness ==
    /\ workflow = "upload_model"
    /\ poll_pc = "query"
    /\ Len(created.inputs) = 2
    /\ Cardinality(entity_ids) = 3

\* every byte the result stream of the output titled t yields, in order
FullContent(t) == ResultStream(t)[1] \o ResultStream(t)[2]

\* C22: when invoke succeeds, its result has exactly one entry per output of
\* the created invocation, keyed by the output's display title; an output
\* with no consume mode (or no config) holds the whole byte content drained
\* from its result stream, and an output configured as stream holds the
\* stream handle with nothing read from it.
C22_ResultPerOutput ==
    (workflow = "invoke" /\ wf_result = "outputs") =>
        /\ wf_pc = "returned"
        /\ DOMAIN invocation_results = Range(created.outputs)
        /\ Cardinality(DOMAIN invocation_results) = Len(created.outputs)
        /\ \A t \in DOMAIN invocation_results :
              /\ (t \notin DOMAIN output_configs \/ output_configs[t] = "None") =>
                    invocation_results[t] = [kind |-> "bytes", content |-> FullContent(t)]
              /\ (t \in DOMAIN output_configs /\ output_configs[t] = "stream") =>
                    invocation_results[t] = [kind |-> "stream", pending |-> ResultStream(t)]
              /\ (t \in DOMAIN output_configs /\ output_configs[t] # "None") =>
                    output_configs[t] \in ConsumeModes

\* C22 witness: invoke has returned two outputs, the first without a consume
\* mode as bytes, the second as a stream
C22_Witness ==
    /\ workflow = "invoke"
    /\ wf_result = "outputs"
    /\ created.outputs = << 1, 2 >>
    /\ DOMAIN output_configs = {1, 2}
    /\ output_configs[1] = "None" /\ output_configs[2] = "stream"
    /\ invocation_results[1].kind = "bytes"
    /\ invocation_results[2].kind = "stream"

\* the entity that owns a pairing request: the model version of an asset
\* pairing, the invocation of an input pairing
OwnerId == IF workflow = "upload_model" THEN VersionId ELSE RecordId

\* C23: the finalize (checksum) request of a transfer holds the id of the
\* entity owning the pairing request (the version for an asset, the
\* invocation for an input), the pairing id the socket allocation of this
\* transfer returned, and the checksum write_and_digest returned on that
\* socket.
C23_FinalizeRequestFields ==
    \A k \in DOMAIN completed_requests :
        LET i == completed_requests[k].item
            request == completed_requests[k].request
        IN  /\ "entity_id" \in DOMAIN request
            /\ request.entity_id = OwnerId
            /\ request.pairing_id = socket_info[i]
            /\ request.checksum = checksum[i]

\* C23, what the code builds: the request holds the pairing id of this
\* transfer's socket and the checksum of this transfer's bytes, and no other
\* field; each transfer is finalized with its own pairing id
C23_FinalizeRequestPairingAndChecksum ==
    /\ \A k \in DOMAIN completed_requests :
          LET i == completed_requests[k].item
              request == completed_requests[k].request
          IN  /\ DOMAIN request = {"pairing_id", "checksum"}
              /\ request.pairing_id = socket_info[i]
              /\ socket_info[i] # 0
              /\ request.checksum = checksum[i]
              /\ request.checksum = Digest(configs[record[i]].data)
    /\ \A k, l \in DOMAIN completed_requests :
          k # l => completed_requests[k].request.pairing_id
                       # completed_requests[l].request.pairing_id

\* C23 witness: two transfers of one dispatch have each sent their finalize
\* request
C23_Witness ==
    /\ Len(completed_requests) = 2
    /\ completed_requests[1].item # completed_requests[2].item

(***************************************************************************)
(* Properties of the resolvers.                                            *)
(***************************************************************************)
\* the call of fn has ended (returned or raised)
Ended(fn) == resolver_call.fn = fn /\ resolver_call.pc \in {"returned", "raised"}

\* the argument is a text that is no http(s) URL and names nothing on disk
TextNotUrlNotOnDisk(data) ==
    IsStr(data) /\ ~is_url(strip(data)) /\ ~PathExists(strip(data))

\* C24: for a text that is no http(s) URL and names nothing on disk,
\* InputSourceResolver.resolve raises the not-found error when the trimmed
\* text contains a path separator, and does not classify it as Primitive.
C24_SeparatorTextNotFound ==
    (/\ Ended("InputSourceResolver.resolve")
     /\ TextNotUrlNotOnDisk(resolver_call.arg)
     /\ contains_sep(strip(resolver_call.arg))) =>
        (resolver_call.pc = "raised" /\ resolver_call.result = "FileNotFoundError")

\* C24, as the code behaves: the resolver the managers and the factory import
\* returns Primitive for such a text, with or without a path separator; only
\* the resolver of norman.helpers raises not-found for the separator
C24_SeparatorTextIsPrimitive ==
    /\ (Ended("InputSourceResolver.resolve") /\ TextNotUrlNotOnDisk(resolver_call.arg)) =>
          (resolver_call.pc = "returned" /\ resolver_call.result = "Primitive")
    /\ (Ended("helpers.InputSourceResolver.resolve") /\ TextNotUrlNotOnDisk(resolver_call.arg)) =>
          IF contains_sep(strip(resolver_call.arg))
          THEN resolver_call.pc = "raised" /\ resolver_call.result = "FileNotFoundError"
          ELSE resolver_call.pc = "returned" /\ resolver_call.result = "Primitive"

\* C24 witness: a padded text with a path separator that names nothing on
\* disk was classified
C24_Witness ==
    /\ Ended("InputSourceResolver.resolve")
    /\ resolver_call.arg = "Str_sep_padded"
    /\ resolver_call.result = "Primitive"

\* C25: InputSourceResolver.resolve returns Primitive for every text that
\* contains no path separator and is no http(s) URL.
C25_PlainTextIsPrimitive ==
    (/\ Ended("InputSourceResolver.resolve")
     /\ IsStr(resolver_call.arg)
     /\ ~contains_sep(resolver_call.arg)
     /\ ~is_url(strip(resolver_call.arg))) =>
        (resolver_call.pc = "returned" /\ resolver_call.result = "Primitive")

\* C25, as the code behaves: such a text is Primitive unless its trimmed form
\* names something on disk, and then it is File; the empty and the
\* whitespace-only text trim to the current directory and are File
C25_PlainTextIsPrimitiveUnlessOnDisk ==
    (/\ Ended("InputSourceResolver.resolve")
     /\ IsStr(resolver_call.arg)
     /\ ~contains_sep(resolver_call.arg)
     /\ ~is_url(strip(resolver_call.arg))) =>
        /\ resolver_call.pc = "returned"
        /\ resolver_call.result =
              IF PathExists(strip(resolver_call.arg)) THEN "File" ELSE "Primitive"
        /\ resolver_call.arg \in {"Str_empty", "Str_blank"} => resolver_call.result = "File"

\* C25 witness: the whitespace-only text was classified File
C25_Witness ==
    /\ Ended("InputSourceResolver.resolve")
    /\ resolver_call.arg = "Str_blank"
    /\ resolver_call.result = "File"

\* C26: InputSourceResolver.resolve fails fast: None raises the
\* invalid-argument error, a path object that does not exist raises
\* not-found, a path object that exists is File; no other rule classifies
\* these values.
C26_NoneAndPathFailFast ==
    Ended("InputSourceResolver.resolve") =>
        /\ resolver_call.arg = "None" =>
              (resolver_call.pc = "raised" /\ resolver_call.result = "ValueError")
        /\ resolver_call.arg = "Path_missing" =>
              (resolver_call.pc = "raised" /\ resolver_call.result = "FileNotFoundError")
        /\ resolver_call.arg = "Path_exists" =>
              (resolver_call.pc = "returned" /\ resolver_call.result = "File")
        /\ resolver_call.pc = "raised" <=> resolver_call.arg \in {"None", "Path_missing"}

\* C26 witness: a path object that does not exist was rejected
C26_Witness ==
    /\ Ended("InputSourceResolver.resolve")
    /\ resolver_call.arg = "Path_missing"
    /\ resolver_call.pc = "raised"

\* the table of a modality resolver
TableOf(fn) ==
    IF fn = "SignatureModalityResolver.resolve" THEN SignatureEncodings
    ELSE IF fn = "ParameterModalityResolver.resolve" THEN ParameterEncodings
    ELSE DataEncodings

\* the modality the table of fn gives the lower-case text without whitespace
CanonicalModality(fn, text) ==
    IF fn = "SignatureModalityResolver.resolve" THEN SignatureEncodingMap(text)
    ELSE ParameterEncodingMap(text)

\* C27: SignatureModalityResolver.resolve and ParameterModalityResolver.resolve
\* give an encoding of their table, in any letter case and with any leading or
\* trailing whitespace, the modality of the lower-case token.
C27_CaseAndWhitespaceInsensitive ==
    \A fn \in {"SignatureModalityResolver.resolve", "ParameterModalityResolver.resolve"} :
        (/\ Ended(fn)
         /\ resolver_call.arg.kind = "str"
         /\ resolver_call.arg.text \in TableOf(fn)) =>
            /\ resolver_call.pc = "returned"
            /\ resolver_call.result = CanonicalModality(fn, resolver_call.arg.text)

\* C27 witness: an upper-case encoding with whitespace on both sides was
\* resolved by the parameter resolver
C27_Witness ==
    /\ Ended("ParameterModalityResolver.resolve")
    /\ resolver_call.arg = [kind |-> "str", text |-> "h264", case |-> "upper",
                            lead |-> TRUE, trail |-> TRUE]
    /\ resolver_call.result = "Video"

\* the encoding is not one of the table of fn
NotInTable(fn, encoding) == encoding.kind # "str" \/ encoding.text \notin TableOf(fn)

\* C28: for every encoding that is not in the resolver's table, the empty and
\* the whitespace-only text included, modality resolution raises an error and
\* returns no default modality.
C28_UnknownEncodingFails ==
    \A fn \in ModalityResolvers :
        (Ended(fn) /\ NotInTable(fn, resolver_call.arg)) =>
            (resolver_call.pc = "raised" /\ resolver_call.result = "ValueError")

\* C28, as the code behaves: the signature and the parameter resolver raise
\* for every such encoding; DataModalityResolver raises only for None, a
\* value that is no text and the empty text, and returns File otherwise
C28_UnknownEncodingFailsOrIsFile ==
    /\ \A fn \in {"SignatureModalityResolver.resolve", "ParameterModalityResolver.resolve"} :
          (Ended(fn) /\ NotInTable(fn, resolver_call.arg)) =>
              (resolver_call.pc = "raised" /\ resolver_call.result = "ValueError")
    /\ (Ended("DataModalityResolver.resolve")
        /\ NotInTable("DataModalityResolver.resolve", resolver_call.arg)) =>
          IF resolver_call.arg.kind # "str" \/ is_empty_text(resolver_call.arg)
          THEN resolver_call.pc = "raised" /\ resolver_call.result = "ValueError"
          ELSE resolver_call.pc = "returned" /\ resolver_call.result = "File"

\* C28 witness: the signature resolver rejected the whitespace-only text
C28_Witness ==
    /\ Ended("SignatureModalityResolver.resolve")
    /\ resolver_call.arg.text = ""
    /\ resolver_call.arg.lead
    /\ resolver_call.pc = "raised"

(***************************************************************************)
(* Properties of the shared authentication state.                          *)
(***************************************************************************)
\* the three fields a login writes
AuthState == << access_token, account_id, id_token >>

\* C29: the shared authentication state is changed only by a login: record
\* creation, uploads, link submission, status polling and output retrieval
\* work with the access token the login stored (it is there to be read) and
\* leave the access token, the account id and the id token unchanged.
C29_OnlyLoginChangesAuthState ==
    /\ [][AuthState' # AuthState => (wf_pc = "login" /\ login_calls' = login_calls)]_vars
    /\ [][(wf_pc \in {"create", "upload", "poll", "resolve", "returned", "failed"})
             => (AuthState' = AuthState)]_vars
    /\ [](wf_pc \in {"create", "upload", "poll", "resolve", "returned"} =>
             AuthState = << "valid", "account", "id_of_valid" >>)

\* C29 witness: an invocation has been created, has uploaded an input, has
\* submitted a link, was polled and has returned its outputs, with the tokens
\* of its one login
C29_Witness ==
    /\ workflow = "invoke"
    /\ wf_result = "outputs"
    /\ resolved # << >>
    /\ completed_requests # << >>
    /\ \E i \in DOMAIN item_log : item_log[i] # << >> /\ item_log[i][1] = "submit_links"
    /\ polls >= 1
    /\ login_calls = 1
    /\ AuthState = << "valid", "account", "id_of_valid" >>

\* the callers whose login request has been sent
LoggedIn == { c \in Callers : caller_pc[c].pc \in {"login", "done", "create"} }

\* C30: when two workflows that both observe an expired token run
\* concurrently on the shared AuthenticationManager, each performs its own
\* login; once the logins have completed, the shared token is the one written
\* by the login that completed last.
C30_LastLoginWins ==
    /\ (\A c \in Callers : caller_pc[c].pc # "start" /\ caller_pc[c].expired)
          => (api_key = "key" => (\A c \in Callers : \/ c \in LoggedIn
                                                     \/ caller_pc[c].pc = "failed")
                                 /\ login_calls = Cardinality(Callers))
    /\ login_completed # << >> =>
          LET last == login_completed[Len(login_completed)]
          IN  /\ access_token = IssuedToken(last)
              /\ id_token = ResponseOf(last).id_token
              /\ account_id = ResponseOf(last).account.id
    /\ \A c \in Callers : Count(login_completed, c) <= 1

\* C30 witness: both callers found the token expired before either login
\* returned, both logins have completed, caller 2's first, and the manager
\* holds caller 1's token
C30_Witness ==
    /\ \A c \in Callers : caller_pc[c].expired /\ caller_pc[c].pc = "done"
    /\ Len(login_completed) >= 2
    /\ login_completed[1] = 2
    /\ login_completed[2] = 1
    /\ access_token = IssuedToken(1)


(***************************************************************************)
(* C31                                                                     *)
(***************************************************************************)
\* the positions of an item inside upload_from_buffer
InTransfer == {"allocating", "writing", "finalizing"}
\* the upload of item i went through upload_file
ViaUploadFile(i) == Called(item_log[i], "open")

\* C31: upload_file keeps the file open only for the duration of the
\* transfer and closes it on every exit path: the file of an item is open
\* exactly while its upload_from_buffer call runs inside upload_file, and it
\* is closed once the upload has ended, after a successful finalize as well
\* as after a failed open, allocation, write or finalize.
C31_FileClosedOnEveryExit ==
    \A i \in Items :
        /\ file_open[i] <=> (ViaUploadFile(i) /\ item_pc[i] \in InTransfer)
        /\ item_pc[i] \in {"done", "failed"} => ~file_open[i]

\* C31 witness: the finalize of a file's transfer raised after the file had
\* been opened, and the file is closed
C31_Witness ==
    \E i \in Items :
        /\ Called(item_log[i], "opened")
        /\ item_pc[i] = "failed"
        /\ FailureOf(i) = "CompleteError"
        /\ ~file_open[i]

(***************************************************************************)
(* C32                                                                     *)
(***************************************************************************)
\* position of the first call e in log (0: not called)
FirstIndex(log, e) == IF Called(log, e) THEN CHOOSE k \in DOMAIN log :
                                                 log[k] = e /\ \A j \in 1..(k - 1) : log[j] # e
                      ELSE 0
\* the call that measures the byte source of a transfer
SizeCalls == {"get_buffer_size", "getsize"}
\* the bytes of the byte source of item i, by the source its handler was
\* chosen for
SourceBytes(i) ==
    LET cfg == configs[record[i]]
        source == ItemSource(cfg)
    IN  IF source = "Primitive" THEN Utf8Len(cfg.data)
        ELSE IF source = "File" THEN FileOf(cfg.data).size
        ELSE BytesLen(cfg.data)

\* C32: for each uploaded input or asset the byte length declared in the
\* pairing request is computed before the socket is allocated and equals the
\* number of bytes then streamed: the normalized buffer's size for a
\* primitive, the file's size on disk for a file, the buffer's size for a
\* stream.
C32_DeclaredLengthIsStreamedLength ==
    \A i \in Items :
        /\ \A k \in DOMAIN item_log[i] :
               IsAllocate(item_log[i][k]) =>
                   /\ file_size_in_bytes[i] >= 0
                   /\ \E j \in 1..(k - 1) : item_log[i][j] \in SizeCalls
        /\ item_pc[i] \in InTransfer \cup {"done"} /\ TransferLog(i) # << >> =>
               file_size_in_bytes[i] = SourceBytes(i)
        /\ bytes_streamed[i] >= 0 => bytes_streamed[i] = file_size_in_bytes[i]

\* C32 witness: a primitive text of more bytes than characters, a file and a
\* stream have each been streamed after their lengths were declared
C32_Witness ==
    /\ workflow = "invoke"
    /\ Len(record) = 3
    /\ \A i \in 1..3 : bytes_streamed[i] >= 0 /\ item_pc[i] = "done"
    /\ { ItemSource(configs[record[i]]) : i \in 1..3 } = {"Primitive", "File", "Stream"}
    /\ \E i \in 1..3 : /\ ItemSource(configs[record[i]]) = "Primitive"
                       /\ bytes_streamed[i] # CharLen(configs[record[i]].data)

(***************************************************************************)
(* C33                                                                     *)
(***************************************************************************)
\* the time the tick that now ends has taken
TickDuration == now' - iteration_start_time

\* C33: after a non-terminal tick the poller sleeps for the polling interval
\* minus the time the tick took; when the tick took as long as or longer than
\* the interval it does not sleep at all, so a zero or negative duration is
\* never passed to sleep.
C33_SleepsForTheRestOfTheInterval ==
    /\ [][(poll_pc = "query" /\ poll_pc' = "sleep")
            => /\ wait_time' = get_flags_interval - TickDuration
               /\ wait_time' > 0]_vars
    /\ [][(poll_pc = "query" /\ poll_pc' = "loop")
            => /\ TickDuration >= get_flags_interval
               /\ sleeps' = sleeps]_vars
    /\ [](poll_pc = "sleep" => (wait_time > 0 /\ wait_time <= get_flags_interval))
    /\ [][(poll_pc = "sleep" /\ poll_pc' # "sleep") => now' - now >= wait_time]_vars

\* C33 witness: one tick took longer than the polling interval and was
\* followed by no sleep, and the next, shorter tick is followed by a sleep for
\* the rest of the interval
C33_Witness ==
    /\ poll_pc = "sleep"
    /\ polls = 2
    /\ sleeps = 1
    /\ iteration_start_time > wait_start_time + get_flags_interval
    /\ wait_time = get_flags_interval - (now - iteration_start_time)
    /\ now > iteration_start_time

(***************************************************************************)
(* C34                                                                     *)
(***************************************************************************)
\* the ends of a call that has entered its loop: return, the no-flags and
\* entity-failed ValueError, TimeoutError
LoopOutcomes == {"returned", "raised_noflags", "raised_error", "raised_timeout"}

Deadline == wait_start_time + flag_timeout_seconds

\* C35: the timeout is evaluated only at a tick boundary: no status query is
\* started at or after the deadline, TimeoutError is raised only by the loop
\* test, and a tick that started before the deadline decides the outcome
\* from its own response, returning success on all Finished or the
\* entity-failed error on any Error even if the deadline passed while the
\* query was in flight.
C35_TimeoutOnlyAtTickBoundary ==
    /\ [][(polls' # polls) => (poll_pc = "loop" /\ now < Deadline /\ poll_pc' = "query")]_vars
    /\ [][(poll_pc' = "raised_timeout" /\ poll_pc # "raised_timeout")
            => (poll_pc = "loop" /\ now >= Deadline)]_vars
    /\ [](poll_pc = "query" => iteration_start_time < Deadline)
    /\ [][(poll_pc = "query" /\ poll_pc' # "query")
            => /\ HasError(status_flags') => poll_pc' = "raised_error"
               /\ (AllFinished(status_flags') /\ ~HasError(status_flags'))
                      => poll_pc' = "returned"
               /\ poll_pc' # "raised_timeout"]_vars

\* C35 witness: a query started before the deadline returned all Finished
\* after the deadline had passed, and the call returned success
C35_Witness ==
    /\ poll_pc = "returned"
    /\ iteration_start_time < Deadline
    /\ now > Deadline
    /\ ~NoFlags(status_flags)

(***************************************************************************)
(* C36                                                                     *)
(***************************************************************************)
\* the three fields as one login response sets them
FieldsOf(login_response) ==
    << login_response.access_token, login_response.account.id, login_response.id_token >>

\* C36: after any login completes, the stored account id, access token and
\* id token all come from the same login response; interleaved concurrent
\* logins never leave the manager holding a mix of values from different
\* responses.
C36_FieldsFromOneResponse ==
    /\ [](login_completed # << >> => \E c \in Callers : AuthState = FieldsOf(ResponseOf(c)))
    /\ [][(AuthState' # AuthState)
            => (\E c \in Callers : /\ caller_pc[c].pc = "login"
                                   /\ caller_pc'[c].pc = "done"
                                   /\ AuthState' = FieldsOf(ResponseOf(c)))]_vars

\* C36 witness: a login by key and a login by password, for different
\* accounts, were both in flight and have both completed
C36_Witness ==
    /\ Len(login_completed) = 2
    /\ caller_pc[1].by = "api_key" /\ caller_pc[2].by = "password"
    /\ login_completed = << 1, 2 >>
    /\ AuthState = FieldsOf(PasswordLoginResponse(2))
    /\ account_id # LoginResponse(IssuedToken(1)).account.id

(***************************************************************************)
(* C37                                                                     *)
(***************************************************************************)
\* the upload operation of item i: a transfer session or a link submission
OneOperation(i) == OneTransferSession(i) \/ OneLinkSubmission(i)
\* the titles of the created record
RecordTitles == { record[i] : i \in Items }
\* the operation started for item i is the one its own caller config asks
\* for: the handler of that config's source, on that config's data
UsesOwnConfig(i) ==
    LET cfg == configs[record[i]]
    IN  /\ HandlerRan(i, ItemSource(cfg))
        /\ file_size_in_bytes[i] >= 0 => file_size_in_bytes[i] = SourceBytes(i)
        /\ checksum[i] # << >> => checksum[i] = Digest(cfg.data)

\* C37: the dispatcher performs exactly one upload operation per input (or
\* asset) of the server-created record, in the record's order, using the
\* caller config whose display title (asset name) equals the item's; a
\* server-side item with no matching caller config aborts the dispatch with
\* an error before any later item is started, and a caller config with no
\* server-side counterpart is never uploaded.
C37_OneOperationPerRecordItem ==
    /\ \A i \in Items :
          /\ Started(i) => /\ \A j \in 1..(i - 1) : item_pc[j] = "done"
                           /\ record[i] \in DOMAIN configs
                           /\ OneOperation(i)
                           /\ UsesOwnConfig(i)
          /\ (cursor > i /\ record[i] \notin DOMAIN configs) =>
                 /\ disp_pc = "failed"
                 /\ disp_error = << [item |-> i, error |-> "KeyError"] >>
                 /\ \A j \in Items : j >= i => (item_pc[j] = "pending" /\ item_log[j] = << >>)
    /\ disp_pc = "done" =>
          /\ \A i \in Items : item_pc[i] = "done" /\ OneOperation(i)
          /\ RecordTitles \subseteq DOMAIN configs
    /\ Cardinality({ i \in Items : Started(i) }) <= Len(record)
    /\ \A k \in DOMAIN completed_requests : completed_requests[k].item \in Items
    /\ \A k \in DOMAIN resolve_calls : resolve_calls[k].title \in RecordTitles

\* C37 witness: the record lists its items in another order than their
\* titles; the first was uploaded from the config of its title, the second
\* has no config and ended the dispatch, and the third, which has one, was
\* never started
C37_Witness ==
    /\ Len(record) = 3
    /\ record[1] = 3
    /\ record[2] \notin DOMAIN configs
    /\ record[3] \in DOMAIN configs
    /\ item_pc[1] = "done"
    /\ disp_error = << [item |-> 2, error |-> "KeyError"] >>
    /\ item_pc[3] = "pending"

(***************************************************************************)
(* C38                                                                     *)
(***************************************************************************)
\* the item whose upload failed (the dispatch has failed)
FailedItem == disp_error[1].item

\* C38: when the upload of the k-th item fails, no operation is started for
\* any item after it in the record's order, the transfers of the items
\* before it (already finalized) are not undone, and neither the poller nor
\* output retrieval is started.
C38_FailureStopsTheWorkflow ==
    /\ [](disp_pc = "failed" =>
             /\ \A j \in Items : j > FailedItem => (item_pc[j] = "pending" /\ item_log[j] = << >>)
             /\ \A j \in Items : j < FailedItem =>
                    /\ item_pc[j] = "done"
                    /\ TransferLog(j) # << >> => (Finalized(j) /\ Len(TransferLog(j)) = 6)
             /\ poll_pc = "idle" /\ polls = 0
             /\ resolved = << >> /\ invocation_results = << >>
             /\ wf_pc \in {"upload", "failed"})
    /\ [][(disp_pc = "failed") => (UNCHANGED dispVars /\ UNCHANGED pollVars)]_vars
    /\ []((wf_pc = "failed" /\ disp_pc = "failed") =>
             (wf_error = disp_error[1].error /\ wf_result = "none"))

\* C38 witness: of three inputs the first was transferred and finalized, the
\* second failed while being written and the third was never started; the
\* workflow has ended with that error, unpolled
C38_Witness ==
    /\ wf_pc = "failed"
    /\ Len(record) = 3
    /\ disp_error = << [item |-> 2, error |-> "WriteError"] >>
    /\ Finalized(1)
    /\ item_pc[3] = "pending"
    /\ polls = 0
====
